---------------------------- MODULE Spec2Model ----------------------------
(***************************************************************************)
(* Stewart platform neck controller (src/src/main.cpp).                    *)
(*                                                                         *)
(* A command string is a sequence of one-character strings.  Indices into  *)
(* a string are 0-based, as in the Arduino String class; the character at  *)
(* index i of s is s[i+1].  A float is a fixed-point integer holding the   *)
(* value times FScale; the inputs of the model carry at most two           *)
(* fractional digits, no exponent and no hexadecimal form.                 *)
(***************************************************************************)
EXTENDS Integers, Sequences, FiniteSets, TLC

VARIABLES
    pc,           \* position of the single thread: setup, pollBT, pollUSB, parse, home
    connected,    \* indices whose FastAccelStepper handle is non-NULL
    stepper,      \* the driver's record of each actuator
    bypassClamp,  \* the global flag
    speedVar,     \* global speed gain
    accVar,       \* global acceleration gain
    btBuf,        \* complete lines pending on BTSerial
    usbBuf,       \* complete lines pending on Serial
    btClient,     \* BTSerial.hasClient()
    arrivals,     \* lines that have arrived so far on both transports
    input,        \* parseAndMove's input (the last line read)
    startIdx,     \* parseAndMove's startIdx
    after,        \* where loop() resumes when parseAndMove returns
    home,         \* the frames of runBruteHome / runSoftHome / runHomeStep
    log           \* calls made on the drivers and transports since the last line was read

vars == <<pc, connected, stepper, bypassClamp, speedVar, accVar, btBuf, usbBuf,
          btClient, arrivals, input, startIdx, after, home, log>>

----------------------------------------------------------------------------
(* Bounds of the model *)

MaxArrivals == 2
MaxPending == 1

----------------------------------------------------------------------------
(* Arduino String operations *)

FScale == 100

Steppers == 1..6

Digits == <<"0", "1", "2", "3", "4", "5", "6", "7", "8", "9">>

LowerChars == <<"a", "b", "c", "d", "e", "f", "g", "h", "i", "j", "k", "l", "m",
                "n", "o", "p", "q", "r", "s", "t", "u", "v", "w", "x", "y", "z">>

UpperChars == <<"A", "B", "C", "D", "E", "F", "G", "H", "I", "J", "K", "L", "M",
                "N", "O", "P", "Q", "R", "S", "T", "U", "V", "W", "X", "Y", "Z">>

isDigit(c) == \E d \in 1..10 : Digits[d] = c

digitVal(c) == (CHOOSE d \in 1..10 : Digits[d] = c) - 1

isSpace(c) == c = " "

toLower(c) ==
    IF \E k \in 1..26 : UpperChars[k] = c
    THEN LowerChars[CHOOSE k \in 1..26 : UpperChars[k] = c]
    ELSE c

MinOf(S) == CHOOSE x \in S : \A y \in S : x <= y

TruncDiv(a, b) == IF a >= 0 THEN a \div b ELSE -((-a) \div b)

\* the element of a one-element set: {e(x) : x \in {v}} names the value v once
Only(S) == CHOOSE x \in S : TRUE

\* String::indexOf(ch, fromIndex)
indexOf(s, ch, from) ==
    IF from >= Len(s) THEN -1
    ELSE LET hits == {i \in from..(Len(s) - 1) : s[i + 1] = ch}
         IN  IF hits = {} THEN -1 ELSE MinOf(hits)

\* String::substring(left, right)
substring(s, left, right) ==
    LET l == IF left > right THEN right ELSE left
        r0 == IF left > right THEN left ELSE right
        r == IF r0 > Len(s) THEN Len(s) ELSE r0
    IN  IF l >= Len(s) THEN <<>> ELSE SubSeq(s, l + 1, r)

\* String::substring(left)
substringFrom(s, left) == substring(s, left, Len(s))

\* String::trim()
trim(s) ==
    LET keep == {i \in 1..Len(s) : ~isSpace(s[i])}
    IN  IF keep = {} THEN <<>>
        ELSE SubSeq(s, MinOf(keep), CHOOSE x \in keep : \A y \in keep : y <= x)

\* String::equalsIgnoreCase
equalsIgnoreCase(s, t) ==
    /\ Len(s) = Len(t)
    /\ \A i \in 1..Len(s) : toLower(s[i]) = toLower(t[i])

\* String::startsWith
startsWith(s, prefix) ==
    /\ Len(prefix) <= Len(s)
    /\ SubSeq(s, 1, Len(prefix)) = prefix

\* number of leading white-space characters from 1-based position i
RECURSIVE skipSpace(_, _)
skipSpace(s, i) ==
    IF i <= Len(s) /\ isSpace(s[i]) THEN skipSpace(s, i + 1) ELSE i

\* the run of digits of s from 1-based position i: its value and the position after it
RECURSIVE digitRun(_, _, _)
digitRun(s, i, acc) ==
    IF i <= Len(s) /\ isDigit(s[i])
    THEN digitRun(s, i + 1, acc * 10 + digitVal(s[i]))
    ELSE [val |-> acc, next |-> i]

\* the optional sign at 1-based position i: whether it is a minus, and the position after it
signAt(s, i) ==
    [neg |-> i <= Len(s) /\ s[i] = "-",
     next |-> IF i <= Len(s) /\ s[i] \in {"-", "+"} THEN i + 1 ELSE i]

\* String::toInt(): atol
toInt(s) ==
    Only({ Only({ IF sg.neg THEN -run.val ELSE run.val : run \in {digitRun(s, sg.next, 0)} })
           : sg \in {signAt(s, skipSpace(s, 1))} })

\* the fraction that follows the integer part ip, in units of 1/FScale
fractionAt(s, ip) ==
    IF ip.next <= Len(s) /\ s[ip.next] = "."
    THEN (IF ip.next + 1 <= Len(s) /\ isDigit(s[ip.next + 1])
          THEN digitVal(s[ip.next + 1]) * 10
               + (IF ip.next + 2 <= Len(s) /\ isDigit(s[ip.next + 2])
                  THEN digitVal(s[ip.next + 2]) ELSE 0)
          ELSE 0)
    ELSE 0

\* String::toFloat(): atof, as a fixed-point value (times FScale)
toFloat(s) ==
    Only({ Only({ IF sg.neg THEN -(ip.val * FScale + fractionAt(s, ip))
                  ELSE ip.val * FScale + fractionAt(s, ip)
                  : ip \in {digitRun(s, sg.next, 0)} })
           : sg \in {signAt(s, skipSpace(s, 1))} })

\* conversion of a float to int: truncation toward zero
floatToInt(f) == TruncDiv(f, FScale)

\* decimal digits of a natural number
RECURSIVE natChars(_)
natChars(n) ==
    IF n < 10 THEN <<Digits[n + 1]>> ELSE natChars(n \div 10) \o <<Digits[(n % 10) + 1]>>

\* String(int)
StringOfInt(n) == IF n < 0 THEN <<"-">> \o natChars(-n) ELSE natChars(n)

\* String(float, 2)
StringOfFloat2(f) ==
    LET m == IF f < 0 THEN -f ELSE f
        body == natChars(m \div FScale) \o <<".">>
                \o <<Digits[((m % FScale) \div 10) + 1], Digits[(m % 10) + 1]>>
    IN  IF f < 0 THEN <<"-">> \o body ELSE body

----------------------------------------------------------------------------
(* Program constants *)

STEPS_PER_MM == 42667            \* 426.67, times FScale

SOFT_HOME_HEIGHT_MM == -40
SOFT_HOME_SPEED_MULT == 200      \* 2.0f
SOFT_HOME_ACCEL_MULT == 200      \* 2.0f
SOFT_HOME_SETTLE_MS == 2200

BRUTE_HOME_PREP_HEIGHT_MM == -55
BRUTE_HOME_PREP_SPEED_MULT == 250
BRUTE_HOME_PREP_ACCEL_MULT == 250
BRUTE_HOME_PREP_SETTLE_MS == 2300

BRUTE_HOME_HEIGHT_MM == -80
BRUTE_HOME_SPEED_MULT == 300
BRUTE_HOME_ACCEL_MULT == 300
BRUTE_HOME_SETTLE_MS == 2600

BRUTE_HOME_PAUSE_MS == 150

pitchScale == 10
rollScale == 10
yawScale == 10
heightScale == 400
minClamp == 0
maxClamp == 80
rollMovementScale == 10
pitchMovementScale == 10

MAX_QUAT_TOKENS == 6

----------------------------------------------------------------------------
(* The calls the core makes on its collaborators.  A state st is the pair  *)
(* of the actuators' records and the log of calls.                         *)

Ev(op, to, n, v, b, cmd) ==
    [op |-> op, to |-> to, n |-> n, v |-> v, b |-> b, cmd |-> cmd]

\* the texts of the diagnostic lines
TxtBrute == "Executing HOME_BRUTE command..."
TxtSoft == "Executing HOME_SOFT command..."
TxtBadStepper == "Invalid stepper number"
TxtQuatShort == "Invalid quaternion command: not enough parameters."
TxtQuatZero == "Invalid quaternion: norm is zero."
TxtQuatEuler == "Quaternion command received. Euler angles (deg)"

Logged(st, e) == [st EXCEPT !.log = Append(@, e)]

\* Serial.println(text)
SerialPrintln(st, text) == Logged(st, Ev(text, "Serial", 0, 0, 0, <<>>))

\* stepperN->setSpeedInHz(v), guarded by if (stepperN)
setSpeedInHz(st, i, v) ==
    IF i \in connected
    THEN [stepper |-> [st.stepper EXCEPT ![i].speed = v],
          log |-> Append(st.log, Ev("setSpeedInHz", "", i, v, 0, <<>>))]
    ELSE st

\* stepperN->setAcceleration(v), guarded by if (stepperN)
setAcceleration(st, i, v) ==
    IF i \in connected
    THEN [stepper |-> [st.stepper EXCEPT ![i].accel = v],
          log |-> Append(st.log, Ev("setAcceleration", "", i, v, 0, <<>>))]
    ELSE st

\* moveTo without the guard if (stepperN)
moveToUnguarded(st, i, v) ==
    [stepper |-> [st.stepper EXCEPT ![i].target = v, ![i].moving = (v # st.stepper[i].pos)],
     log |-> Append(st.log, Ev("moveTo", "", i, v, 0, <<>>))]

\* stepperN->moveTo(v), guarded by if (stepperN)
moveTo(st, i, v) ==
    IF i \in connected
    THEN [stepper |-> [st.stepper EXCEPT ![i].target = v,
                                         ![i].moving = (v # st.stepper[i].pos)],
          log |-> Append(st.log, Ev("moveTo", "", i, v, 0, <<>>))]
    ELSE st

\* stepperN->setCurrentPosition(v), guarded by if (stepperN)
setCurrentPosition(st, i, v) ==
    IF i \in connected
    THEN [stepper |-> [st.stepper EXCEPT ![i].pos = v, ![i].moving = FALSE],
          log |-> Append(st.log, Ev("setCurrentPosition", "", i, v, 0, <<>>))]
    ELSE st

\* zeroAllSteppers that leaves out the sixth actuator
zeroFiveSteppers(st) ==
    LET s1 == setCurrentPosition(st, 1, 0)
        s2 == setCurrentPosition(s1, 2, 0)
        s3 == setCurrentPosition(s2, 3, 0)
        s4 == setCurrentPosition(s3, 4, 0)
    IN  setCurrentPosition(s4, 5, 0)

zeroAllSteppers(st) ==
    LET s1 == setCurrentPosition(st, 1, 0)
        s2 == setCurrentPosition(s1, 2, 0)
        s3 == setCurrentPosition(s2, 3, 0)
        s4 == setCurrentPosition(s3, 4, 0)
        s5 == setCurrentPosition(s4, 5, 0)
    IN  setCurrentPosition(s5, 6, 0)

\* emitHealthReport(Stream &out) that reports the first actuator's configured speed and
\* acceleration in place of the two gains
emitHealthReportToApplied(st, out) ==
    Logged(st, Ev("health", out, st.stepper[1].speed, st.stepper[1].accel,
                  IF bypassClamp THEN 1 ELSE 0, <<>>))

\* emitHealthReport(Stream &out)
emitHealthReportTo(st, out) ==
    Logged(st, Ev("health", out, speedVar, accVar, IF bypassClamp THEN 1 ELSE 0, <<>>))

\* emitHealthReport that writes to BTSerial without asking for a client
emitHealthReportBoth(st) ==
    emitHealthReportTo(emitHealthReportTo(st, "Serial"), "BT")

\* emitHealthReport()
emitHealthReport(st) ==
    LET s1 == emitHealthReportTo(st, "Serial")
    IN  IF btClient THEN emitHealthReportTo(s1, "BT") ELSE s1

----------------------------------------------------------------------------
(* moveHead *)

\* clampMove that ignores bypassClamp
clampMoveAlways(m) ==
    LET lo == IF m < minClamp * heightScale THEN minClamp * heightScale ELSE m
    IN  IF lo > maxClamp * heightScale THEN maxClamp * heightScale ELSE lo

\* clampMove without the upper bound
clampMoveNoMax(m) ==
    IF ~bypassClamp
    THEN IF m < minClamp * heightScale THEN minClamp * heightScale ELSE m
    ELSE m

\* the bound applied to one computed target
clampMove(m) ==
    IF ~bypassClamp
    THEN LET lo == IF m < minClamp * heightScale THEN minClamp * heightScale ELSE m
         IN  IF lo > maxClamp * heightScale THEN maxClamp * heightScale ELSE lo
    ELSE m

\* commandStepper that issues the move before it sets the speed and the acceleration
commandStepperMoveFirst(st, i, newSpeed, newAccel, mv) ==
    setAcceleration(setSpeedInHz(moveTo(st, i, mv), i, newSpeed), i, newAccel)

\* commandStepper that moves relative to the previous target
commandStepperRelative(st, i, newSpeed, newAccel, mv) ==
    moveTo(setAcceleration(setSpeedInHz(st, i, newSpeed), i, newAccel), i,
           st.stepper[i].target + mv)

\* the three calls made on one actuator
commandStepper(st, i, newSpeed, newAccel, mv) ==
    moveTo(setAcceleration(setSpeedInHz(st, i, newSpeed), i, newAccel), i, mv)

\* moveHead with the sign of angleZ mirrored on the fourth actuator
moveHeadMirrored(st, angleX, angleY, angleZ, heightOffset, speedMultiplier, accelMultiplier, roll, pitch) ==
    LET heightMovement == heightOffset * heightScale
        move1 == -angleX * pitchScale + angleY * rollScale + angleZ * yawScale
                 + pitch * pitchMovementScale + roll * rollMovementScale + heightMovement
        move2 == angleX * pitchScale - angleY * rollScale - angleZ * yawScale
                 + pitch * pitchMovementScale + roll * rollMovementScale + heightMovement
        move3 == -angleX * pitchScale - angleY * rollScale - angleZ * yawScale
                 - pitch * pitchMovementScale + roll * rollMovementScale + heightMovement
        move4 == angleX * pitchScale + angleY * rollScale + angleZ * yawScale
                 - pitch * pitchMovementScale - roll * rollMovementScale + heightMovement
        move5 == -angleX * pitchScale + angleY * rollScale - angleZ * yawScale
                 + pitch * pitchMovementScale - roll * rollMovementScale + heightMovement
        move6 == angleX * pitchScale - angleY * rollScale + angleZ * yawScale
                 + pitch * pitchMovementScale - roll * rollMovementScale + heightMovement
        newSpeed == TruncDiv(speedVar * speedMultiplier, FScale)
        newAccel == TruncDiv(accVar * accelMultiplier, FScale)
        s1 == commandStepper(st, 1, newSpeed, newAccel, clampMove(move1))
        s2 == commandStepper(s1, 2, newSpeed, newAccel, clampMove(move2))
        s3 == commandStepper(s2, 3, newSpeed, newAccel, clampMove(move3))
        s4 == commandStepper(s3, 4, newSpeed, newAccel, clampMove(move4))
        s5 == commandStepper(s4, 5, newSpeed, newAccel, clampMove(move5))
    IN  commandStepper(s5, 6, newSpeed, newAccel, clampMove(move6))

moveHead(st, angleX, angleY, angleZ, heightOffset, speedMultiplier, accelMultiplier, roll, pitch) ==
    LET heightMovement == heightOffset * heightScale
        move1 == -angleX * pitchScale + angleY * rollScale + angleZ * yawScale
                 + pitch * pitchMovementScale + roll * rollMovementScale + heightMovement
        move2 == angleX * pitchScale - angleY * rollScale - angleZ * yawScale
                 + pitch * pitchMovementScale + roll * rollMovementScale + heightMovement
        move3 == -angleX * pitchScale - angleY * rollScale - angleZ * yawScale
                 - pitch * pitchMovementScale + roll * rollMovementScale + heightMovement
        move4 == angleX * pitchScale + angleY * rollScale - angleZ * yawScale
                 - pitch * pitchMovementScale - roll * rollMovementScale + heightMovement
        move5 == -angleX * pitchScale + angleY * rollScale - angleZ * yawScale
                 + pitch * pitchMovementScale - roll * rollMovementScale + heightMovement
        move6 == angleX * pitchScale - angleY * rollScale + angleZ * yawScale
                 + pitch * pitchMovementScale - roll * rollMovementScale + heightMovement
        newSpeed == TruncDiv(speedVar * speedMultiplier, FScale)
        newAccel == TruncDiv(accVar * accelMultiplier, FScale)
        s1 == commandStepper(st, 1, newSpeed, newAccel, clampMove(move1))
        s2 == commandStepper(s1, 2, newSpeed, newAccel, clampMove(move2))
        s3 == commandStepper(s2, 3, newSpeed, newAccel, clampMove(move3))
        s4 == commandStepper(s3, 4, newSpeed, newAccel, clampMove(move4))
        s5 == commandStepper(s4, 5, newSpeed, newAccel, clampMove(move5))
    IN  commandStepper(s5, 6, newSpeed, newAccel, clampMove(move6))

----------------------------------------------------------------------------
(* executeCommand: the General Movement branch *)

defaultPose ==
    [angleX |-> 0, angleY |-> 0, angleZ |-> 0, heightOffset |-> 0, roll |-> 0,
     pitch |-> 0, speedMultiplier |-> FScale, accelMultiplier |-> FScale]

\* one token of a General Movement command: the switch on its first character
axisToken(pose, tok) ==
    IF Len(tok) > 0
    THEN Only({ LET axis == tok[1]
                IN  CASE axis = "X" -> [pose EXCEPT !.angleX = floatToInt(value)]
                      [] axis = "Y" -> [pose EXCEPT !.angleY = floatToInt(value)]
                      [] axis = "Z" -> [pose EXCEPT !.angleZ = floatToInt(value)]
                      [] axis = "H" -> [pose EXCEPT !.heightOffset = floatToInt(value)]
                      [] axis = "S" -> [pose EXCEPT !.speedMultiplier = value]
                      [] axis = "A" -> [pose EXCEPT !.accelMultiplier = value]
                      [] axis = "R" -> [pose EXCEPT !.roll = floatToInt(value)]
                      [] axis = "P" -> [pose EXCEPT !.pitch = floatToInt(value)]
                      [] OTHER -> pose
                : value \in {toFloat(substringFrom(tok, 1))} })
    ELSE pose

\* generalTokens without the final token
RECURSIVE generalTokensDropLast(_, _, _)
generalTokensDropLast(command, sIdx, pose) ==
    LET endIdx == indexOf(command, ",", sIdx)
    IN  IF endIdx # -1
        THEN generalTokensDropLast(command, endIdx + 1,
                                   axisToken(pose, substring(command, sIdx, endIdx)))
        ELSE pose

\* the while loop over the comma-separated tokens, then the final token
RECURSIVE generalTokens(_, _, _)
generalTokens(command, sIdx, pose) ==
    LET endIdx == indexOf(command, ",", sIdx)
    IN  IF endIdx # -1
        THEN generalTokens(command, endIdx + 1,
                           axisToken(pose, substring(command, sIdx, endIdx)))
        ELSE axisToken(pose, substringFrom(command, sIdx))

generalPose(command) == generalTokens(command, 0, defaultPose)

executeGeneral(st, command) ==
    Only({ moveHead(st, p.angleX, p.angleY, p.angleZ, p.heightOffset,
                    p.speedMultiplier, p.accelMultiplier, p.roll, p.pitch)
           : p \in {generalPose(command)} })

----------------------------------------------------------------------------
(* executeCommand: the Direct Axis branch *)

\* stepsOfMm that rounds to the nearest integer
stepsOfMmRounded(mmValue) ==
    IF mmValue >= 0
    THEN (mmValue * STEPS_PER_MM + (FScale * FScale) \div 2) \div (FScale * FScale)
    ELSE -((-mmValue * STEPS_PER_MM + (FScale * FScale) \div 2) \div (FScale * FScale))

\* int positionSteps = mmValue * STEPS_PER_MM
stepsOfMm(mmValue) == TruncDiv(mmValue * STEPS_PER_MM, FScale * FScale)

\* moveToStepper that also sets the default speed and acceleration
moveToStepperWithSpeed(st, stepperNum, positionSteps) ==
    IF stepperNum \in 1..6
    THEN commandStepper(st, stepperNum, speedVar, accVar, positionSteps)
    ELSE SerialPrintln(st, TxtBadStepper)

\* moveToStepper that bounds the position as moveHead does
moveToStepperClamped(st, stepperNum, positionSteps) ==
    IF stepperNum \in 1..6
    THEN moveTo(st, stepperNum, clampMove(positionSteps))
    ELSE SerialPrintln(st, TxtBadStepper)

\* moveToStepper whose default case falls through to the sixth motor
moveToStepperFallThrough(st, stepperNum, positionSteps) ==
    IF stepperNum \in 1..5
    THEN moveTo(st, stepperNum, positionSteps)
    ELSE moveTo(st, 6, positionSteps)

moveToStepper(st, stepperNum, positionSteps) ==
    IF stepperNum \in 1..6
    THEN moveTo(st, stepperNum, positionSteps)
    ELSE SerialPrintln(st, TxtBadStepper)

\* one comma-separated token of a Direct Axis command
axisPair(st, axisCommand) ==
    LET colonIdx == indexOf(axisCommand, ":", 0)
    IN  IF Len(axisCommand) > 0 /\ colonIdx # -1
        THEN moveToStepper(st, toInt(substring(axisCommand, 0, colonIdx)),
                           stepsOfMm(toFloat(substringFrom(axisCommand, colonIdx + 1))))
        ELSE st

RECURSIVE directTokens(_, _, _)
directTokens(st, command, sIdx) ==
    LET endIdx == indexOf(command, ",", sIdx)
    IN  IF endIdx # -1
        THEN directTokens(axisPair(st, substring(command, sIdx, endIdx)),
                          command, endIdx + 1)
        ELSE axisPair(st, substringFrom(command, sIdx))

executeDirect(st, command) == directTokens(st, command, 0)

----------------------------------------------------------------------------
(* handleQuaternionCommand *)

\* the while loop that fills tokens[6], then the last token
RECURSIVE quatTokens(_, _, _)
quatTokens(command, sIdx, tokens) ==
    LET endIdx == indexOf(command, ",", sIdx)
    IN  IF endIdx # -1 /\ Len(tokens) < MAX_QUAT_TOKENS
        THEN quatTokens(command, endIdx + 1, Append(tokens, substring(command, sIdx, endIdx)))
        ELSE IF sIdx < Len(command) /\ Len(tokens) < MAX_QUAT_TOKENS
             THEN Append(tokens, substringFrom(command, sIdx))
             ELSE tokens

\* the loop over the optional tokens i = 4 .. tokenCount-1
RECURSIVE quatOptions(_, _, _)
quatOptions(tokens, i, opt) ==
    IF i > Len(tokens) THEN opt
    ELSE LET token == trim(tokens[i])
             next == IF startsWith(token, <<"H">>)
                     THEN [opt EXCEPT !.heightOffset = toInt(substringFrom(token, 1))]
                     ELSE IF startsWith(token, <<"S">>)
                     THEN [opt EXCEPT !.speedMultiplier = toFloat(substringFrom(token, 1))]
                     ELSE IF startsWith(token, <<"A">>)
                     THEN [opt EXCEPT !.accelMultiplier = toFloat(substringFrom(token, 1))]
                     ELSE opt
         IN  quatOptions(tokens, i + 1, next)

\* normalisation and conversion to rounded Euler angles in degrees, tabulated for
\* the quaternions of the model (single-precision arithmetic, atan2, asin, round)
eulerDegrees(q) ==
    CASE q = <<100, 0, 0, 0>> -> [roll |-> 0, pitch |-> 0, yaw |-> 0]
      [] q = <<200, 0, 0, 0>> -> [roll |-> 0, pitch |-> 0, yaw |-> 0]
      [] q = <<50, 50, 50, 50>> -> [roll |-> 90, pitch |-> 0, yaw |-> 90]
      [] q = <<97, 0, 26, 0>> -> [roll |-> 0, pitch |-> 30, yaw |-> 0]
      [] q = <<97, 0, 0, 26>> -> [roll |-> 0, pitch |-> 0, yaw |-> 30]
      [] q = <<92, 38, 0, 0>> -> [roll |-> 45, pitch |-> 0, yaw |-> 0]
      [] q = <<50, 0, 0, -50>> -> [roll |-> 0, pitch |-> 0, yaw |-> -90]

\* the command without its leading 'Q' and optional colon
quatBody(command) ==
    LET c1 == trim(substringFrom(command, 1))
    IN  IF startsWith(c1, <<":">>) THEN trim(substringFrom(c1, 1)) ELSE c1

\* quatMove that passes pitch as angleX and yaw as angleY
quatMoveSwapped(st, q, opt) ==
    IF q[1] * q[1] + q[2] * q[2] + q[3] * q[3] + q[4] * q[4] > 0
    THEN Only({ moveHead(SerialPrintln(st, TxtQuatEuler), e.pitch, e.yaw, e.roll,
                         opt.heightOffset, opt.speedMultiplier, opt.accelMultiplier, 0, 0)
                : e \in {eulerDegrees(q)} })
    ELSE SerialPrintln(st, TxtQuatZero)

\* the command once its four components q and its options opt are parsed
quatMove(st, q, opt) ==
    IF q[1] * q[1] + q[2] * q[2] + q[3] * q[3] + q[4] * q[4] > 0
    THEN Only({ moveHead(SerialPrintln(st, TxtQuatEuler), e.yaw, e.pitch, e.roll,
                         opt.heightOffset, opt.speedMultiplier, opt.accelMultiplier, 0, 0)
                : e \in {eulerDegrees(q)} })
    ELSE SerialPrintln(st, TxtQuatZero)

\* the command once it is split into tokens
quatParsed(st, tokens) ==
    IF Len(tokens) < 4
    THEN SerialPrintln(st, TxtQuatShort)
    ELSE Only({ quatMove(st, qo[1], qo[2])
                : qo \in {<<toFloat(tokens[1]), toFloat(tokens[2]),
                              toFloat(tokens[3]), toFloat(tokens[4])>>}
                          \X {quatOptions(tokens, 5,
                                  [heightOffset |-> 0, speedMultiplier |-> FScale,
                                   accelMultiplier |-> FScale])} })

handleQuaternionCommand(st, command) ==
    Only({ quatParsed(st, tokens) : tokens \in {quatTokens(quatBody(command), 0, <<>>)} })

----------------------------------------------------------------------------
(* executeCommand *)

LitHome == <<"H", "O", "M", "E">>
LitHomeBrute == <<"H", "O", "M", "E", "_", "B", "R", "U", "T", "E">>
LitHomeSoft == <<"H", "O", "M", "E", "_", "S", "O", "F", "T">>
LitHealth == <<"H", "E", "A", "L", "T", "H">>
LitStatus == <<"S", "T", "A", "T", "U", "S">>

\* commandKind that looks for a colon before it looks for the Q
commandKindColonFirst(c) ==
    IF Len(c) = 0 THEN "empty"
    ELSE IF equalsIgnoreCase(c, LitHome) \/ equalsIgnoreCase(c, LitHomeBrute) THEN "brute"
    ELSE IF equalsIgnoreCase(c, LitHomeSoft) THEN "soft"
    ELSE IF equalsIgnoreCase(c, LitHealth) \/ equalsIgnoreCase(c, LitStatus) THEN "health"
    ELSE IF indexOf(c, ":", 0) # -1 THEN "direct"
    ELSE IF c[1] = "Q" THEN "quat"
    ELSE "general"

\* the branch executeCommand takes for a trimmed command
commandKind(c) ==
    IF Len(c) = 0 THEN "empty"
    ELSE IF equalsIgnoreCase(c, LitHome) \/ equalsIgnoreCase(c, LitHomeBrute) THEN "brute"
    ELSE IF equalsIgnoreCase(c, LitHomeSoft) THEN "soft"
    ELSE IF equalsIgnoreCase(c, LitHealth) \/ equalsIgnoreCase(c, LitStatus) THEN "health"
    ELSE IF c[1] = "Q" THEN "quat"
    ELSE IF indexOf(c, ":", 0) # -1 THEN "direct"
    ELSE "general"

\* executeCommand for a command that is not a homing literal
executeCommand(st, command) ==
    Only({ Only({ CASE kind = "health" -> emitHealthReport(st)
                    [] kind = "quat" -> handleQuaternionCommand(st, c)
                    [] kind = "direct" -> executeDirect(st, c)
                    [] kind = "general" -> executeGeneral(st, c)
                    [] OTHER -> st
                  : kind \in {commandKind(c)} })
           : c \in {trim(command)} })

----------------------------------------------------------------------------
(* Homing *)

softProfile ==
    [heightMm |-> SOFT_HOME_HEIGHT_MM, speedMultiplier |-> SOFT_HOME_SPEED_MULT,
     accelMultiplier |-> SOFT_HOME_ACCEL_MULT, settleMs |-> SOFT_HOME_SETTLE_MS]

brutePrepProfile ==
    [heightMm |-> BRUTE_HOME_PREP_HEIGHT_MM, speedMultiplier |-> BRUTE_HOME_PREP_SPEED_MULT,
     accelMultiplier |-> BRUTE_HOME_PREP_ACCEL_MULT, settleMs |-> BRUTE_HOME_PREP_SETTLE_MS]

bruteMainProfile ==
    [heightMm |-> BRUTE_HOME_HEIGHT_MM, speedMultiplier |-> BRUTE_HOME_SPEED_MULT,
     accelMultiplier |-> BRUTE_HOME_ACCEL_MULT, settleMs |-> BRUTE_HOME_SETTLE_MS]

\* the command string runHomeStep builds
homeCommand(heightMm, speedMultiplier, accelMultiplier) ==
    <<"H">> \o StringOfInt(heightMm) \o <<",", "S">> \o StringOfFloat2(speedMultiplier)
    \o <<",", "A">> \o StringOfFloat2(accelMultiplier)

homeIdle == [phases |-> <<>>, step |-> "idle", previousBypass |-> FALSE, ret |-> "none"]

\* homeEntered with the two brute phases in the opposite order
homeEnteredMainFirst(kind, ret) ==
    [phases |-> IF kind = "soft" THEN <<softProfile>>
                ELSE <<bruteMainProfile, brutePrepProfile>>,
     step |-> "begin", previousBypass |-> FALSE, ret |-> ret]

\* runBruteHome / runSoftHome entered, to continue at ret when it returns
homeEntered(kind, ret) ==
    [phases |-> IF kind = "soft" THEN <<softProfile>>
                ELSE <<brutePrepProfile, bruteMainProfile>>,
     step |-> "begin", previousBypass |-> FALSE, ret |-> ret]

\* bool previousBypass = bypassClamp; bypassClamp = true;
HomeSetBypass ==
    /\ pc = "home" /\ home.step = "begin"
    /\ home' = [home EXCEPT !.previousBypass = bypassClamp, !.step = "move"]
    /\ bypassClamp' = TRUE
    /\ UNCHANGED <<pc, connected, stepper, speedVar, accVar, btBuf, usbBuf, btClient,
                   arrivals, input, startIdx, after, log>>

\* executeCommand(cmd) of runHomeStep
HomeMove ==
    /\ pc = "home" /\ home.step = "move"
    /\ \E p \in {Head(home.phases)} :
         \E st \in {executeCommand([stepper |-> stepper, log |-> log],
                        homeCommand(p.heightMm, p.speedMultiplier, p.accelMultiplier))} :
           /\ stepper' = st.stepper
           /\ log' = st.log
    /\ home' = [home EXCEPT !.step = "settle"]
    /\ UNCHANGED <<pc, connected, bypassClamp, speedVar, accVar, btBuf, usbBuf, btClient,
                   arrivals, input, startIdx, after>>

\* HomeSettle that polls Serial while it waits
HomeSettlePolling ==
    /\ pc = "home" /\ home.step = "settle"
    /\ log' = Append(log, Ev("delay", "", 0, Head(home.phases).settleMs, 0, <<>>))
    /\ home' = [home EXCEPT !.step = "zero"]
    /\ IF usbBuf # <<>>
       THEN /\ usbBuf' = Tail(usbBuf)
            /\ input' = trim(Head(usbBuf))
       ELSE UNCHANGED <<usbBuf, input>>
    /\ UNCHANGED <<pc, connected, stepper, bypassClamp, speedVar, accVar, btBuf,
                   btClient, arrivals, startIdx, after>>

\* delay(settleMs)
HomeSettle ==
    /\ pc = "home" /\ home.step = "settle"
    /\ log' = Append(log, Ev("delay", "", 0, Head(home.phases).settleMs, 0, <<>>))
    /\ home' = [home EXCEPT !.step = "zero"]
    /\ UNCHANGED <<pc, connected, stepper, bypassClamp, speedVar, accVar, btBuf, usbBuf,
                   btClient, arrivals, input, startIdx, after>>

\* zeroAllSteppers() of runHomeStep
HomeZero ==
    /\ pc = "home" /\ home.step = "zero"
    /\ \E st \in {zeroAllSteppers([stepper |-> stepper, log |-> log])} :
           /\ stepper' = st.stepper
           /\ log' = st.log
    /\ home' = [home EXCEPT !.step = "restore"]
    /\ UNCHANGED <<pc, connected, bypassClamp, speedVar, accVar, btBuf, usbBuf, btClient,
                   arrivals, input, startIdx, after>>

\* HomeRestore without the assignment that restores the flag
HomeRestoreLeak ==
    /\ pc = "home" /\ home.step = "restore"
    /\ IF Len(home.phases) > 1
       THEN /\ home' = [home EXCEPT !.phases = Tail(@), !.step = "pause"]
            /\ pc' = pc
       ELSE /\ home' = homeIdle
            /\ pc' = home.ret
    /\ UNCHANGED <<connected, stepper, bypassClamp, speedVar, accVar, btBuf, usbBuf,
                   btClient, arrivals, input, startIdx, after, log>>

\* bypassClamp = previousBypass; then the caller's next statement
HomeRestore ==
    /\ pc = "home" /\ home.step = "restore"
    /\ bypassClamp' = home.previousBypass
    /\ IF Len(home.phases) > 1
       THEN /\ home' = [home EXCEPT !.phases = Tail(@), !.step = "pause"]
            /\ pc' = pc
       ELSE /\ home' = homeIdle
            /\ pc' = home.ret
    /\ UNCHANGED <<connected, stepper, speedVar, accVar, btBuf, usbBuf, btClient,
                   arrivals, input, startIdx, after, log>>

\* delay(150) of runBruteHome
HomePause ==
    /\ pc = "home" /\ home.step = "pause"
    /\ log' = Append(log, Ev("delay", "", 0, BRUTE_HOME_PAUSE_MS, 0, <<>>))
    /\ home' = [home EXCEPT !.step = "begin"]
    /\ UNCHANGED <<pc, connected, stepper, bypassClamp, speedVar, accVar, btBuf, usbBuf,
                   btClient, arrivals, input, startIdx, after>>

----------------------------------------------------------------------------
(* setup *)

INIT_SPEED == 48000
INIT_ACCEL == 36000

\* the outcomes of the six engine.stepperConnectToPin calls
ConnectOutcomes == {Steppers, Steppers \ {3, 6}}

\* Setup that configures the motors and goes to loop() without homing
SetupNoHome(conn) ==
    /\ pc = "setup"
    /\ connected' = conn
    /\ stepper' = [i \in Steppers |->
                     IF i \in conn
                     THEN [stepper[i] EXCEPT !.speed = speedVar, !.accel = accVar]
                     ELSE stepper[i]]
    /\ pc' = "pollBT"
    /\ UNCHANGED <<bypassClamp, speedVar, accVar, btBuf, usbBuf, btClient, arrivals,
                   input, startIdx, after, home, log>>

\* setupStepper for the six motors, then runBruteHome is entered
Setup(conn) ==
    /\ pc = "setup"
    /\ connected' = conn
    /\ stepper' = [i \in Steppers |->
                     IF i \in conn
                     THEN [stepper[i] EXCEPT !.speed = speedVar, !.accel = accVar]
                     ELSE stepper[i]]
    /\ log' = Append(log, Ev(TxtBrute, "Serial", 0, 0, 0, <<>>))
    /\ home' = homeEntered("brute", "pollBT")
    /\ pc' = "home"
    /\ UNCHANGED <<bypassClamp, speedVar, accVar, btBuf, usbBuf, btClient, arrivals,
                   input, startIdx, after>>

----------------------------------------------------------------------------
(* parseAndMove *)

\* executeCommand(command) called by parseAndMove, which continues at cont
dispatch(command, cont) ==
    \E c \in {trim(command)} : \E kind \in {commandKind(c)} :
    \E called \in {IF kind = "empty" THEN log ELSE Append(log, Ev("exec", "", 0, 0, 0, c))} :
        IF kind \in {"brute", "soft"}
        THEN /\ log' = Append(called, Ev(IF kind = "soft" THEN TxtSoft ELSE TxtBrute,
                                         "Serial", 0, 0, 0, <<>>))
             /\ home' = homeEntered(kind, cont)
             /\ pc' = "home"
             /\ UNCHANGED stepper
        ELSE \E st \in {executeCommand([stepper |-> stepper, log |-> called], c)} :
                 /\ stepper' = st.stepper
                 /\ log' = st.log
                 /\ pc' = cont
                 /\ UNCHANGED home

\* one iteration of the while loop: a command that ends at a pipe
ParseSegment ==
    /\ pc = "parse"
    /\ LET endIdx == indexOf(input, "|", startIdx)
       IN  /\ endIdx # -1
           /\ dispatch(substring(input, startIdx, endIdx), "parse")
           /\ startIdx' = endIdx + 1
    /\ UNCHANGED <<connected, bypassClamp, speedVar, accVar, btBuf, usbBuf, btClient,
                   arrivals, input, after>>

\* ParseLast that does not flush the segment after the last pipe
ParseLastDropped ==
    /\ pc = "parse"
    /\ indexOf(input, "|", startIdx) = -1
    /\ pc' = after
    /\ startIdx' = Len(input)
    /\ UNCHANGED <<connected, stepper, bypassClamp, speedVar, accVar, btBuf, usbBuf,
                   btClient, arrivals, input, after, home, log>>

\* the last (or only) command, and the return to loop()
ParseLast ==
    /\ pc = "parse"
    /\ indexOf(input, "|", startIdx) = -1
    /\ LET lastCommand == substringFrom(input, startIdx)
       IN  IF Len(lastCommand) > 0
           THEN dispatch(lastCommand, after)
           ELSE /\ pc' = after
                /\ UNCHANGED <<stepper, log, home>>
    /\ startIdx' = Len(input)
    /\ UNCHANGED <<connected, bypassClamp, speedVar, accVar, btBuf, usbBuf, btClient,
                   arrivals, input, after>>

----------------------------------------------------------------------------
(* loop *)

\* LoopBT that polls BTSerial again after a line, as a loop draining the transport would
LoopBTAgain ==
    /\ pc = "pollBT"
    /\ IF btBuf # <<>>
       THEN LET line == trim(Head(btBuf))
            IN  /\ btBuf' = Tail(btBuf)
                /\ input' = line
                /\ startIdx' = 0
                /\ log' = <<>>
                /\ after' = "pollBT"
                /\ pc' = IF Len(line) > 0 THEN "parse" ELSE "pollBT"
       ELSE /\ pc' = "pollUSB"
            /\ UNCHANGED <<btBuf, input, startIdx, log, after>>
    /\ UNCHANGED <<connected, stepper, bypassClamp, speedVar, accVar, usbBuf, btClient,
                   arrivals, home>>

\* if (BTSerial.available()) { readStringUntil, trim, parseAndMove }
LoopBT ==
    /\ pc = "pollBT"
    /\ IF btBuf # <<>>
       THEN LET line == trim(Head(btBuf))
            IN  /\ btBuf' = Tail(btBuf)
                /\ input' = line
                /\ startIdx' = 0
                /\ log' = <<>>
                /\ after' = "pollUSB"
                /\ pc' = IF Len(line) > 0 THEN "parse" ELSE "pollUSB"
       ELSE /\ pc' = "pollUSB"
            /\ UNCHANGED <<btBuf, input, startIdx, log, after>>
    /\ UNCHANGED <<connected, stepper, bypassClamp, speedVar, accVar, usbBuf, btClient,
                   arrivals, home>>

\* if (Serial.available()) { readStringUntil, trim, parseAndMove }
LoopUSB ==
    /\ pc = "pollUSB"
    /\ IF usbBuf # <<>>
       THEN LET line == trim(Head(usbBuf))
            IN  /\ usbBuf' = Tail(usbBuf)
                /\ input' = line
                /\ startIdx' = 0
                /\ log' = <<>>
                /\ after' = "pollBT"
                /\ pc' = IF Len(line) > 0 THEN "parse" ELSE "pollBT"
       ELSE /\ pc' = "pollBT"
            /\ UNCHANGED <<usbBuf, input, startIdx, log, after>>
    /\ UNCHANGED <<connected, stepper, bypassClamp, speedVar, accVar, btBuf, btClient,
                   arrivals, home>>

----------------------------------------------------------------------------
(* The environment: the two transports and the motors *)

UsbLines ==
    {\* H-40,S2,A2|HEALTH
     <<"H", "-", "4", "0", ",", "S", "2", ",", "A", "2", "|", "H", "E", "A", "L", "T", "H">>,
     \* HOME
     <<"H", "O", "M", "E">>,
     \* home_soft|H10
     <<"h", "o", "m", "e", "_", "s", "o", "f", "t", "|", "H", "1", "0">>,
     \* X1700,Y200,H40
     <<"X", "1", "7", "0", "0", ",", "Y", "2", "0", "0", ",", "H", "4", "0">>,
     \* H90,S0.5|1:1,3:-1,4:90
     <<"H", "9", "0", ",", "S", "0", ".", "5", "|", "1", ":", "1", ",", "3", ":", "-", "1", ",", "4", ":", "9", "0">>,
     \* 1:30,7:5,x:9,2:45|STATUS
     <<"1", ":", "3", "0", ",", "7", ":", "5", ",", "x", ":", "9", ",", "2", ":", "4", "5", "|", "S", "T", "A", "T", "U", "S">>,
     \* X30,S2|X30,S2
     <<"X", "3", "0", ",", "S", "2", "|", "X", "3", "0", ",", "S", "2">>,
     \* H10,Q,,Xab,H20|W5,|q:1,0,0,0
     <<"H", "1", "0", ",", "Q", ",", ",", "X", "a", "b", ",", "H", "2", "0", "|", "W", "5", ",", "|", "q", ":", "1", ",", "0", ",", "0", ",", "0">>,
     \* Q:1,0,0|Q:0,0,0,0,H5|Q:1,0,0,H5
     <<"Q", ":", "1", ",", "0", ",", "0", "|", "Q", ":", "0", ",", "0", ",", "0", ",", "0", ",", "H", "5", "|", "Q", ":", "1", ",", "0", ",", "0", ",", "H", "5">>,
     \* Q:1,0,0,0|Q:1,0,0,0,H5,S2,A2
     <<"Q", ":", "1", ",", "0", ",", "0", ",", "0", "|", "Q", ":", "1", ",", "0", ",", "0", ",", "0", ",", "H", "5", ",", "S", "2", ",", "A", "2">>,
     \* Q:0.5,0.5,0.5,0.5,A2,H5|Q0.97,0,0.26,0,S2
     <<"Q", ":", "0", ".", "5", ",", "0", ".", "5", ",", "0", ".", "5", ",", "0", ".", "5", ",", "A", "2", ",", "H", "5", "|", "Q", "0", ".", "9", "7", ",", "0", ",", "0", ".", "2", "6", ",", "0", ",", "S", "2">>,
     \* |H10| |X-30|
     <<"|", "H", "1", "0", "|", " ", "|", "X", "-", "3", "0", "|">>}

BtLines ==
    {\* HOME_BRUTE
     <<"H", "O", "M", "E", "_", "B", "R", "U", "T", "E">>,
     \* Status
     <<"S", "t", "a", "t", "u", "s">>,
     \* (a blank)
     <<" ">>}

\* a line arrives on Serial
USBArrive(line) ==
    /\ arrivals < MaxArrivals
    /\ Len(usbBuf) < MaxPending
    /\ usbBuf' = Append(usbBuf, line)
    /\ arrivals' = arrivals + 1
    /\ UNCHANGED <<pc, connected, stepper, bypassClamp, speedVar, accVar, btBuf, btClient,
                   input, startIdx, after, home, log>>

\* a line arrives on BTSerial from the connected peer
BTArrive(line) ==
    /\ btClient
    /\ arrivals < MaxArrivals
    /\ Len(btBuf) < MaxPending
    /\ btBuf' = Append(btBuf, line)
    /\ arrivals' = arrivals + 1
    /\ UNCHANGED <<pc, connected, stepper, bypassClamp, speedVar, accVar, usbBuf, btClient,
                   input, startIdx, after, home, log>>

\* a Bluetooth peer connects or disconnects
BTPeer ==
    /\ btClient' = ~btClient
    /\ UNCHANGED <<pc, connected, stepper, bypassClamp, speedVar, accVar, btBuf, usbBuf,
                   arrivals, input, startIdx, after, home, log>>

\* the thread is blocked in delay() or idle in loop(): time passes
TimePasses == pc \in {"pollBT", "pollUSB"} \/ (pc = "home" /\ home.step \in {"settle", "pause"})

\* the motors that are moving reach their targets
MotorsArrive ==
    /\ TimePasses
    /\ \E i \in connected : stepper[i].moving
    /\ stepper' = [i \in Steppers |->
                     IF i \in connected /\ stepper[i].moving
                     THEN [stepper[i] EXCEPT !.pos = stepper[i].target, !.moving = FALSE]
                     ELSE stepper[i]]
    /\ UNCHANGED <<pc, connected, bypassClamp, speedVar, accVar, btBuf, usbBuf, btClient,
                   arrivals, input, startIdx, after, home, log>>

----------------------------------------------------------------------------
(* The specification *)

Init ==
    /\ pc = "setup"
    /\ connected = {}
    /\ stepper = [i \in Steppers |->
                    [target |-> 0, pos |-> 0, speed |-> 0, accel |-> 0, moving |-> FALSE]]
    /\ bypassClamp = FALSE
    /\ speedVar = INIT_SPEED
    /\ accVar = INIT_ACCEL
    /\ btBuf = <<>>
    /\ usbBuf = <<>>
    /\ btClient = FALSE
    /\ arrivals = 0
    /\ input = <<>>
    /\ startIdx = 0
    /\ after = "pollBT"
    /\ home = homeIdle
    /\ log = <<>>

Next ==
    \/ \E conn \in ConnectOutcomes : Setup(conn)
    \/ HomeSetBypass
    \/ HomeMove
    \/ HomeSettle
    \/ HomeZero
    \/ HomeRestore
    \/ HomePause
    \/ ParseSegment
    \/ ParseLast
    \/ LoopBT
    \/ LoopUSB
    \/ \E line \in UsbLines : USBArrive(line)
    \/ \E line \in BtLines : BTArrive(line)
    \/ BTPeer
    \/ MotorsArrive

Spec == Init /\ [][Next]_vars

----------------------------------------------------------------------------
(* The General Movement path as a function: executeCommand called on one   *)
(* command with bypassClamp in either state, as runHomeStep and            *)
(* parseAndMove call it                                                    *)

\* one-axis commands, alone or with a height, and the three homing commands
MixCommands ==
    {axis \o value \o height :
        axis \in {<<"X">>, <<"Y">>, <<"Z">>, <<"R">>, <<"P">>},
        value \in {<<"3", "0">>, <<"-", "3", "0">>, <<"1", "7", "0", "0">>},
        height \in {<<>>, <<",", "H", "1", "0">>, <<",", "H", "-", "5", "5">>}}
    \cup {homeCommand(pr.heightMm, pr.speedMultiplier, pr.accelMultiplier) :
            pr \in {softProfile, brutePrepProfile, bruteMainProfile}}

\* the actuators as the last homing or the last clamped move left them
MixInit ==
    /\ pc = "call"
    /\ connected \in ConnectOutcomes
    /\ \E t \in {0, 32000} :
         stepper = [i \in Steppers |->
                      [target |-> t, pos |-> t, speed |-> IF i \in connected THEN INIT_SPEED ELSE 0,
                       accel |-> IF i \in connected THEN INIT_ACCEL ELSE 0, moving |-> FALSE]]
    /\ bypassClamp \in BOOLEAN
    /\ speedVar = INIT_SPEED
    /\ accVar = INIT_ACCEL
    /\ btBuf = <<>>
    /\ usbBuf = <<>>
    /\ btClient = FALSE
    /\ arrivals = 0
    /\ input \in MixCommands
    /\ startIdx = 0
    /\ after = "done"
    /\ home = homeIdle
    /\ log = <<>>

\* executeCommand(cmd)
MixCall ==
    /\ pc = "call"
    /\ \E st \in {executeCommand([stepper |-> stepper, log |-> log], input)} :
         /\ stepper' = st.stepper
         /\ log' = st.log
    /\ pc' = after
    /\ UNCHANGED <<connected, bypassClamp, speedVar, accVar, btBuf, usbBuf, btClient,
                   arrivals, input, startIdx, after, home>>

MixNext == MixCall

SpecMix == MixInit /\ [][MixNext]_vars

----------------------------------------------------------------------------
(* The program under continuous input: a line may arrive on a transport    *)
(* whenever its buffer has room, without end, and the thread keeps running *)

FlowUsbLines ==
    {\* HOME
     <<"H", "O", "M", "E">>,
     \* H-40,S2,A2|HEALTH
     <<"H", "-", "4", "0", ",", "S", "2", ",", "A", "2", "|", "H", "E", "A", "L", "T", "H">>}

FlowBtLines ==
    {\* Status
     <<"S", "t", "a", "t", "u", "s">>,
     \* (a blank)
     <<" ">>,
     \* X30|home_soft
     <<"X", "3", "0", "|", "h", "o", "m", "e", "_", "s", "o", "f", "t">>}

\* a line arrives on Serial
USBFlow(line) ==
    /\ Len(usbBuf) < MaxPending
    /\ usbBuf' = Append(usbBuf, line)
    /\ UNCHANGED <<pc, connected, stepper, bypassClamp, speedVar, accVar, btBuf, btClient,
                   arrivals, input, startIdx, after, home, log>>

\* a line arrives on BTSerial from the connected peer
BTFlow(line) ==
    /\ btClient
    /\ Len(btBuf) < MaxPending
    /\ btBuf' = Append(btBuf, line)
    /\ UNCHANGED <<pc, connected, stepper, bypassClamp, speedVar, accVar, usbBuf, btClient,
                   arrivals, input, startIdx, after, home, log>>

\* the steps of the thread: setup(), then loop() for ever
Thread ==
    \/ \E conn \in ConnectOutcomes : Setup(conn)
    \/ HomeSetBypass
    \/ HomeMove
    \/ HomeSettle
    \/ HomeZero
    \/ HomeRestore
    \/ HomePause
    \/ ParseSegment
    \/ ParseLast
    \/ LoopBT
    \/ LoopUSB

FlowNext ==
    \/ Thread
    \/ \E line \in FlowUsbLines : USBFlow(line)
    \/ \E line \in FlowBtLines : BTFlow(line)
    \/ BTPeer
    \/ MotorsArrive

\* the thread is never suspended for ever: delay() returns and loop() is called again.
\* Some step of Thread is possible in every state, so that weak fairness of Thread is
\* the condition that steps of Thread keep happening.
ThreadRuns == []<><<Thread>>_vars

SpecFlow == Init /\ [][FlowNext]_vars /\ ThreadRuns

----------------------------------------------------------------------------
(* Vocabulary of the properties *)

\* lines read so far
LinesRead == arrivals - Len(btBuf) - Len(usbBuf)

\* the thread is in loop(), between two calls of parseAndMove
Polling == pc \in {"pollBT", "pollUSB"}

\* the command parseAndMove is about to pass to executeCommand, trimmed
CurCommand ==
    LET endIdx == indexOf(input, "|", startIdx)
    IN  trim(IF endIdx # -1 THEN substring(input, startIdx, endIdx)
             ELSE substringFrom(input, startIdx))

\* this step is parseAndMove passing CurCommand to executeCommand
Dispatching == pc = "parse" /\ startIdx' # startIdx

\* the events a step appends to the log
Appended == SubSeq(log', Len(log) + 1, Len(log'))

\* the events of a log with the given operation
EventsOf(l, op) == SelectSeq(l, LAMBDA e : e.op = op)

\* the events of a log on actuator i that set its target or its position
PositionOps(l, i) ==
    SelectSeq(l, LAMBDA e : e.n = i /\ e.op \in {"moveTo", "setCurrentPosition"})

\* the mixing matrix of the specification: rows m1..m6, columns X, Y, Z, P, R
MixSign ==
    << <<-1, 1, 1, 1, 1>>, <<1, -1, -1, 1, 1>>, <<-1, -1, -1, -1, 1>>,
       <<1, 1, -1, -1, -1>>, <<-1, 1, -1, 1, -1>>, <<1, -1, 1, 1, -1>> >>

\* the raw mixed value of actuator i: the matrix row plus 400 * heightOffset
RawTarget(i, p) ==
    10 * (MixSign[i][1] * p.angleX + MixSign[i][2] * p.angleY + MixSign[i][3] * p.angleZ
          + MixSign[i][4] * p.pitch + MixSign[i][5] * p.roll)
    + 400 * p.heightOffset

\* saturation to the window [0, 32000]
Saturated(v) == IF v < 0 THEN 0 ELSE IF v > 32000 THEN 32000 ELSE v

\* the tokens of a Quaternion command as handleQuaternionCommand splits them
QuatTokensOf(c) == quatTokens(quatBody(c), 0, <<>>)

\* the four components a Quaternion command is read as
QuatOf(c) ==
    LET t == QuatTokensOf(c)
    IN  <<toFloat(t[1]), toFloat(t[2]), toFloat(t[3]), toFloat(t[4])>>

\* a Quaternion command that handleQuaternionCommand turns into a move
QuatAccepted(c) ==
    /\ Len(QuatTokensOf(c)) >= 4
    /\ \E k \in 1..4 : QuatOf(c)[k] # 0

\* the pose a General Movement or accepted Quaternion command is executed with
PoseOf(c) ==
    IF c[1] = "Q"
    THEN LET e == eulerDegrees(QuatOf(c))
             o == quatOptions(QuatTokensOf(c), 5,
                      [heightOffset |-> 0, speedMultiplier |-> FScale,
                       accelMultiplier |-> FScale])
         IN  [angleX |-> e.yaw, angleY |-> e.pitch, angleZ |-> e.roll,
              heightOffset |-> o.heightOffset, roll |-> 0, pitch |-> 0]
    ELSE generalPose(c)

\* CurCommand is a General Movement command or a Quaternion command that moves
MovesHead ==
    \/ commandKind(CurCommand) = "general"
    \/ commandKind(CurCommand) = "quat" /\ QuatAccepted(CurCommand)

----------------------------------------------------------------------------
(* C1: every General Movement or Quaternion command executed while         *)
(* bypassClamp is false issues, to each connected actuator, exactly one    *)
(* target, equal to the raw mixed value (matrix row plus 400*heightOffset) *)
(* saturated to [0, 32000]: the raw value inside the window, 0 below it,   *)
(* 32000 above it.                                                         *)
C1_TargetsSaturated ==
    [][(Dispatching /\ ~bypassClamp /\ MovesHead) =>
        \A i \in connected :
            /\ stepper'[i].target = Saturated(RawTarget(i, PoseOf(CurCommand)))
            /\ stepper'[i].target \in 0..32000
            /\ SelectSeq(Appended, LAMBDA e : e.op = "moveTo" /\ e.n = i)
                 = <<Ev("moveTo", "", i, Saturated(RawTarget(i, PoseOf(CurCommand))), 0, <<>>)>>
      ]_vars

\* C1 witness: a General Movement command has been executed with the flag false and
\* its six raw targets fell inside (1, 2, 5, 6), below (3) and above (4) the window
C1_Witness ==
    /\ Polling /\ ~bypassClamp /\ connected = Steppers
    /\ EventsOf(log, "exec") # <<>>
    /\ stepper[1].target = 1000 /\ stepper[2].target = 31000
    /\ stepper[3].target = 0 /\ stepper[4].target = 32000

----------------------------------------------------------------------------
(* C2: whenever loop() is polling the transports or parseAndMove is        *)
(* between two commands (about to dispatch one), bypassClamp is false.     *)
C2_NoBypassLeak == (Polling \/ pc = "parse") => ~bypassClamp

\* C2 witness: parseAndMove is about to dispatch the command that follows a completed
\* HOME_SOFT in the same line
C2_Witness ==
    /\ pc = "parse" /\ startIdx > 0 /\ Len(CurCommand) > 0
    /\ EventsOf(log, TxtSoft) # <<>>
    /\ ~bypassClamp

----------------------------------------------------------------------------
(* C3: when a homing sequence (HOME, HOME_BRUTE, HOME_SOFT) completes,     *)
(* bypassClamp is false again and, for every connected actuator, the last  *)
(* operation on its position is setCurrentPosition(0) and its current      *)
(* position is 0.                                                          *)
C3_HomeLeavesZero ==
    [][(pc = "home" /\ pc' # "home") =>
        /\ bypassClamp' = FALSE
        /\ \A i \in connected :
             /\ stepper'[i].pos = 0
             /\ PositionOps(log', i) # <<>>
             /\ PositionOps(log', i)[Len(PositionOps(log', i))]
                  = Ev("setCurrentPosition", "", i, 0, 0, <<>>)
      ]_vars

\* C3 witness: a HOME_SOFT command has just completed; the actuators were sent to
\* -16000 and their positions read 0
C3_Witness ==
    /\ pc # "home" /\ ~bypassClamp /\ connected = Steppers
    /\ EventsOf(log, TxtSoft) # <<>>
    /\ log[Len(log)] = Ev("setCurrentPosition", "", 6, 0, 0, <<>>)
    /\ \A i \in Steppers : stepper[i].target = -16000 /\ stepper[i].pos = 0

----------------------------------------------------------------------------
(* Text operations of the properties, written from the grammar of the      *)
(* specification                                                           *)

\* the pieces of s between the occurrences of ch
RECURSIVE SplitAt(_, _)
SplitAt(s, ch) ==
    IF \A i \in 1..Len(s) : s[i] # ch THEN <<s>>
    ELSE LET k == CHOOSE i \in 1..Len(s) : s[i] = ch /\ \A j \in 1..(i - 1) : s[j] # ch
         IN  <<SubSeq(s, 1, k - 1)>> \o SplitAt(SubSeq(s, k + 1, Len(s)), ch)

\* s without its leading and trailing blanks
RECURSIVE Strip(_)
Strip(s) ==
    IF s # <<>> /\ s[1] = " " THEN Strip(Tail(s))
    ELSE IF s # <<>> /\ s[Len(s)] = " " THEN Strip(SubSeq(s, 1, Len(s) - 1))
    ELSE s

\* the pipe-separated segments of s that are non-empty after trimming, trimmed
NonEmptySegments(s) ==
    LET segs == SplitAt(s, "|")
    IN  SelectSeq([k \in 1..Len(segs) |-> Strip(segs[k])], LAMBDA x : x # <<>>)

\* the commands a log shows as dispatched by parseAndMove
ExecCmds(l) == [k \in 1..Len(EventsOf(l, "exec")) |-> EventsOf(l, "exec")[k].cmd]

\* the segment parseAndMove is looking at, untrimmed
CurSegment == Head(SplitAt(SubSeq(input, startIdx + 1, Len(input)), "|"))

\* the positions in a log of the events that satisfy a test
Positions(l, Test(_)) == {k \in 1..Len(l) : Test(l[k])}

LineMoveHealth == <<"H", "-", "4", "0", ",", "S", "2", ",", "A", "2", "|", "H", "E", "A", "L", "T", "H">>

LineEmptySegments == <<"|", "H", "1", "0", "|", " ", "|", "X", "-", "3", "0", "|">>

----------------------------------------------------------------------------
(* C4: in every state the commands dispatched for the current line are     *)
(* exactly the non-empty trimmed segments of the part of the line already  *)
(* consumed, each once and in order (so at the end of the line: all of     *)
(* them, the one after the last pipe included); a segment that is empty    *)
(* after trimming causes no call on an actuator and no report; and the     *)
(* line "H-40,S2,A2|HEALTH" issues its moves and then exactly one health   *)
(* line on Serial.                                                         *)
C4_SegmentsInOrder ==
    [][/\ ExecCmds(log') = NonEmptySegments(SubSeq(input', 1, startIdx'))
       /\ (pc = "parse" /\ Strip(CurSegment) = <<>>) => (log' = log /\ stepper' = stepper)
       /\ (Polling' /\ input' = LineMoveHealth /\ startIdx' = Len(input')) =>
            LET moves == Positions(log', LAMBDA e : e.op = "moveTo")
                health == Positions(log', LAMBDA e : e.op = "health" /\ e.to = "Serial")
            IN  /\ Cardinality(moves) = Cardinality(connected)
                /\ Cardinality(health) = 1
                /\ \A m \in moves : \A h \in health : m < h
      ]_vars

\* C4 witness: the line "|H10| |X-30|" has been processed to its end: two commands
\* dispatched, the three empty segments skipped
C4_Witness ==
    /\ Polling /\ input = LineEmptySegments /\ startIdx = Len(input)
    /\ ExecCmds(log) = << <<"H", "1", "0">>, <<"X", "-", "3", "0">> >>

----------------------------------------------------------------------------
(* C5: while a homing sequence is in progress no line is taken from either *)
(* transport (a line that arrives stays pending), parseAndMove's position  *)
(* in its line does not move, no command is dispatched, and the only moves *)
(* issued are the homing profiles' own (-22000, -32000, -16000).          *)
C5_HomingNotInterrupted ==
    [][pc = "home" =>
        /\ Len(btBuf') >= Len(btBuf) /\ SubSeq(btBuf', 1, Len(btBuf)) = btBuf
        /\ Len(usbBuf') >= Len(usbBuf) /\ SubSeq(usbBuf', 1, Len(usbBuf)) = usbBuf
        /\ input' = input /\ startIdx' = startIdx
        /\ EventsOf(Appended, "exec") = <<>>
        /\ \A k \in 1..Len(Appended) :
             Appended[k].op = "moveTo" => Appended[k].v \in {-22000, -32000, -16000}
      ]_vars

\* C5 witness: a line is pending on Serial while a homing command started by an earlier
\* line is in its settle delay with the clamp bypassed
C5_Witness ==
    /\ pc = "home" /\ home.step = "settle" /\ bypassClamp
    /\ EventsOf(log, "exec") # <<>>
    /\ usbBuf # <<>>

----------------------------------------------------------------------------
(* C6: the brute homing sequence runs once at start, after the actuators   *)
(* are configured and before any line is read; when the first command is   *)
(* about to be dispatched bypassClamp is false and every connected         *)
(* actuator's position has been set to 0.                                  *)

\* a log that shows one complete brute homing sequence and nothing else
BootLogComplete(l) ==
    /\ l # <<>> /\ l[1].op = TxtBrute /\ Len(EventsOf(l, TxtBrute)) = 1
    /\ EventsOf(l, "exec") = <<>>
    /\ [k \in 1..Len(EventsOf(l, "delay")) |-> EventsOf(l, "delay")[k].v] = <<2300, 150, 2600>>
    /\ \A i \in connected :
         /\ [k \in 1..Len(PositionOps(l, i)) |-> <<PositionOps(l, i)[k].op, PositionOps(l, i)[k].v>>]
              = << <<"moveTo", -22000>>, <<"setCurrentPosition", 0>>,
                   <<"moveTo", -32000>>, <<"setCurrentPosition", 0>> >>

C6_BootHoming ==
    /\ pc = "setup" => LinesRead = 0
    /\ (LinesRead = 0 /\ pc = "home") =>
         /\ log # <<>> /\ log[1].op = TxtBrute /\ EventsOf(log, "exec") = <<>>
         /\ \A i \in connected : stepper[i].speed > 0 /\ stepper[i].accel > 0
         /\ (home.step = "begin" /\ Len(home.phases) = 2) =>
              \A i \in connected : stepper[i].speed = 48000 /\ stepper[i].accel = 36000
    /\ (LinesRead = 0 /\ pc \notin {"setup", "home"}) =>
         /\ Polling /\ BootLogComplete(log) /\ ~bypassClamp
         /\ \A i \in connected : stepper[i].pos = 0
    /\ (LinesRead = 1 /\ pc = "parse" /\ EventsOf(log, "exec") = <<>>) =>
         /\ ~bypassClamp
         /\ \A i \in connected : stepper[i].pos = 0 /\ stepper[i].target = -32000

\* C6 witness: the first line has been read and its first command is about to be
\* dispatched
C6_Witness ==
    /\ LinesRead = 1 /\ pc = "parse" /\ startIdx = 0 /\ log = <<>>
    /\ Len(CurCommand) > 0 /\ connected = Steppers
    /\ \A i \in Steppers : stepper[i].pos = 0

----------------------------------------------------------------------------
(* C7: a Direct Axis command makes, pair by pair and in order, one moveTo  *)
(* for a pair whose index reads as an integer in 1..6 and one error line   *)
(* for any other pair, which changes no actuator; every actuator named by  *)
(* a valid pair, before or after a bad one, gets the target of its last    *)
(* valid pair; and parseAndMove goes on with the rest of the line.         *)

\* the comma-separated tokens of a Direct Axis command that hold a colon
PairsOf(c) == SelectSeq(SplitAt(c, ","), LAMBDA t : \E k \in 1..Len(t) : t[k] = ":")

PairIndex(t) == toInt(Head(SplitAt(t, ":")))

PairSteps(t) == stepsOfMm(toFloat(SubSeq(t, Len(Head(SplitAt(t, ":"))) + 2, Len(t))))

\* the calls the pairs should cause
RECURSIVE PairEvents(_)
PairEvents(pairs) ==
    IF pairs = <<>> THEN <<>>
    ELSE (IF PairIndex(Head(pairs)) \notin 1..6
          THEN <<Ev(TxtBadStepper, "Serial", 0, 0, 0, <<>>)>>
          ELSE IF PairIndex(Head(pairs)) \in connected
          THEN <<Ev("moveTo", "", PairIndex(Head(pairs)), PairSteps(Head(pairs)), 0, <<>>)>>
          ELSE <<>>)
         \o PairEvents(Tail(pairs))

\* the positions of the pairs that name actuator k
PairsFor(pairs, k) == {j \in 1..Len(pairs) : PairIndex(pairs[j]) = k}

C7_BadIndexSkipped ==
    [][(Dispatching /\ commandKind(CurCommand) = "direct") =>
        LET pairs == PairsOf(CurCommand)
        IN  /\ Appended = <<Ev("exec", "", 0, 0, 0, CurCommand)>> \o PairEvents(pairs)
            /\ \A k \in Steppers :
                 stepper'[k].target =
                    IF k \in connected /\ PairsFor(pairs, k) # {}
                    THEN PairSteps(pairs[CHOOSE j \in PairsFor(pairs, k) :
                                            \A h \in PairsFor(pairs, k) : h <= j])
                    ELSE stepper[k].target
            /\ pc' = IF indexOf(input, "|", startIdx) # -1 THEN "parse" ELSE after
      ]_vars

LineDirectBad ==
    <<"1", ":", "3", "0", ",", "7", ":", "5", ",", "x", ":", "9", ",", "2", ":", "4", "5",
      "|", "S", "T", "A", "T", "U", "S">>

\* C7 witness: "1:30,7:5,x:9,2:45|STATUS" has been processed: two error lines, the
\* targets of actuators 1 and 2 set, and the health report of the next command made
C7_Witness ==
    /\ Polling /\ input = LineDirectBad /\ connected = Steppers
    /\ Len(EventsOf(log, TxtBadStepper)) = 2
    /\ stepper[1].target = 12800 /\ stepper[2].target = 19200
    /\ EventsOf(log, "health") # <<>>

----------------------------------------------------------------------------
(* Quaternion grammar of the specification:                                *)
(*   Q:<w>,<x>,<y>,<z>[,H<height>][,S<speedMult>][,A<accelMult>]           *)

\* the text of a Quaternion command after the Q and the optional colon
QuatText(c) ==
    LET a == Strip(Tail(c))
    IN  IF a # <<>> /\ a[1] = ":" THEN Strip(Tail(a)) ELSE a

\* every comma-separated token of a Quaternion command
GrammarTokens(c) == SplitAt(QuatText(c), ",")

\* a token that is a decimal number: optional sign, digits, at most one point
IsNumeric(t) ==
    LET u == Strip(t)
        b == IF u # <<>> /\ u[1] \in {"-", "+"} THEN Tail(u) ELSE u
    IN  /\ \E k \in 1..Len(b) : isDigit(b[k])
        /\ \A k \in 1..Len(b) : isDigit(b[k]) \/ b[k] = "."
        /\ Cardinality({k \in 1..Len(b) : b[k] = "."}) <= 1

\* the tokens in the places of w, x, y, z
ComponentTokens(c) ==
    SubSeq(GrammarTokens(c), 1, IF Len(GrammarTokens(c)) < 4 THEN Len(GrammarTokens(c)) ELSE 4)

\* the command gives fewer than four numeric tokens for w, x, y, z
FewerThanFourNumeric(c) == Len(SelectSeq(ComponentTokens(c), IsNumeric)) < 4

\* the command gives four numeric components that are all zero
ZeroNorm(c) ==
    /\ ~FewerThanFourNumeric(c)
    /\ \A k \in 1..4 : toFloat(ComponentTokens(c)[k]) = 0

\* the optional tokens: everything after the fourth token, trimmed
OptionTokens(c) ==
    [k \in 1..(Len(GrammarTokens(c)) - 4) |-> Strip(GrammarTokens(c)[k + 4])]

\* the positions of the optional tokens that start with the given letter
OptionsWith(c, letter) ==
    {k \in 1..Len(OptionTokens(c)) : OptionTokens(c)[k] # <<>> /\ OptionTokens(c)[k][1] = letter}

\* the text after the letter of the last optional token that starts with it
OptionText(c, letter) ==
    Tail(OptionTokens(c)[CHOOSE k \in OptionsWith(c, letter) :
                            \A h \in OptionsWith(c, letter) : h <= k])

\* the pose and gains the grammar gives an accepted Quaternion command
GrammarHeight(c) == IF OptionsWith(c, "H") = {} THEN 0 ELSE toInt(OptionText(c, "H"))

GrammarSpeedMult(c) == IF OptionsWith(c, "S") = {} THEN FScale ELSE toFloat(OptionText(c, "S"))

GrammarAccelMult(c) == IF OptionsWith(c, "A") = {} THEN FScale ELSE toFloat(OptionText(c, "A"))

----------------------------------------------------------------------------
(* C8: a Quaternion command with fewer than four numeric tokens for        *)
(* w, x, y, z, or with zero norm, changes no target, speed, acceleration   *)
(* or position of any actuator, issues no move, and leaves bypassClamp     *)
(* unchanged.                                                              *)
C8_InvalidQuaternionRejected ==
    [][(/\ Dispatching
        /\ commandKind(CurCommand) = "quat"
        /\ (FewerThanFourNumeric(CurCommand) \/ ZeroNorm(CurCommand))) =>
        /\ stepper' = stepper
        /\ bypassClamp' = bypassClamp
        /\ EventsOf(Appended, "moveTo") = <<>>
      ]_vars

----------------------------------------------------------------------------
(* C9: an accepted Quaternion command is executed with the value of every  *)
(* optional H, S, A token present after the four components, and with the  *)
(* default (0, 1.0, 1.0) for each absent one: every connected actuator     *)
(* gets the speed speedVar * S, the acceleration accVar * A, and the       *)
(* saturated target of the Euler pose with height offset H.                *)
C9_QuaternionOptionsApplied ==
    [][(/\ Dispatching
        /\ commandKind(CurCommand) = "quat"
        /\ QuatAccepted(CurCommand)) =>
        \A i \in connected :
            /\ stepper'[i].speed = TruncDiv(speedVar * GrammarSpeedMult(CurCommand), FScale)
            /\ stepper'[i].accel = TruncDiv(accVar * GrammarAccelMult(CurCommand), FScale)
            /\ stepper'[i].target =
                 Saturated(RawTarget(i, [PoseOf(CurCommand) EXCEPT
                                           !.heightOffset = GrammarHeight(CurCommand)]))
      ]_vars

----------------------------------------------------------------------------
(* C10: the target a Direct Axis pair k:v with k in 1..6 gives actuator k  *)

\* v * 426.67 to the nearest integer, v in hundredths
RoundedSteps(v) ==
    IF v >= 0 THEN (v * 42667 + 5000) \div 10000 ELSE -((-v * 42667 + 5000) \div 10000)

\* v * 426.67 with the fraction dropped, v in hundredths
TruncatedSteps(v) ==
    IF v >= 0 THEN (v * 42667) \div 10000 ELSE -((-v * 42667) \div 10000)

\* the value of a pair, in hundredths of a millimetre
PairValue(t) == toFloat(SubSeq(t, Len(Head(SplitAt(t, ":"))) + 2, Len(t)))

\* the pairs of the command being dispatched, and for actuator k its last one
LastPairFor(k) ==
    LET pairs == PairsOf(CurCommand)
    IN  pairs[CHOOSE j \in PairsFor(pairs, k) : \A h \in PairsFor(pairs, k) : h <= j]

(* C10 as stated: the target issued to actuator k is round(v * C), the     *)
(* nearest integer.                                                        *)
C10_TargetRounded ==
    [][(Dispatching /\ commandKind(CurCommand) = "direct") =>
        \A k \in connected :
            PairsFor(PairsOf(CurCommand), k) # {} =>
                stepper'[k].target = RoundedSteps(PairValue(LastPairFor(k)))
      ]_vars

(* C10 amended: the target issued to actuator k is v * C truncated toward  *)
(* zero, issued by one moveTo on actuator k; for "1:30" that is 12800,     *)
(* which is also round(30 * C).                                            *)
C10_TargetTruncated ==
    [][(Dispatching /\ commandKind(CurCommand) = "direct") =>
        \A k \in connected :
            PairsFor(PairsOf(CurCommand), k) # {} =>
                /\ stepper'[k].target = TruncatedSteps(PairValue(LastPairFor(k)))
                /\ \E j \in 1..Len(Appended) :
                     Appended[j] = Ev("moveTo", "", k, stepper'[k].target, 0, <<>>)
                /\ (PairValue(LastPairFor(k)) = 3000) =>
                     (stepper'[k].target = 12800 /\ RoundedSteps(3000) = 12800)
      ]_vars

\* C10 witness: "1:1,3:-1,4:90" has been executed, where truncation and rounding differ:
\* 426.67 gives 426 and -426.67 gives -426
C10_Witness ==
    /\ EventsOf(log, "exec") # <<>>
    /\ stepper[1].target = 426 /\ stepper[3].target = -426
    /\ RoundedSteps(100) = 427 /\ RoundedSteps(-100) = -427

----------------------------------------------------------------------------
(* C11: a Direct Axis command changes nothing but the targets of the       *)
(* actuators its valid pairs name: the targets of the others, the speed,   *)
(* acceleration and position of all six, the gains and bypassClamp stay    *)
(* as they were, and no call other than moveTo is made on an actuator.     *)
C11_DirectFrame ==
    [][(Dispatching /\ commandKind(CurCommand) = "direct") =>
        /\ bypassClamp' = bypassClamp /\ speedVar' = speedVar /\ accVar' = accVar
        /\ \A i \in Steppers :
             /\ stepper'[i].speed = stepper[i].speed
             /\ stepper'[i].accel = stepper[i].accel
             /\ stepper'[i].pos = stepper[i].pos
             /\ PairsFor(PairsOf(CurCommand), i) = {} => stepper'[i] = stepper[i]
        /\ \A k \in 1..Len(Appended) :
             Appended[k].op \in {"exec", "moveTo", TxtBadStepper}
      ]_vars

\* C11 witness: "H90,S0.5|1:1,3:-1,4:90" executed: actuators 1, 3, 4 have the
\* new targets, actuator 2 keeps 32000, and all keep the speed 24000 of the General move
C11_Witness ==
    /\ Polling /\ connected = Steppers
    /\ ExecCmds(log) = << <<"H", "9", "0", ",", "S", "0", ".", "5">>,
                          <<"1", ":", "1", ",", "3", ":", "-", "1", ",", "4", ":", "9", "0">> >>
    /\ stepper[1].target = 426 /\ stepper[2].target = 32000 /\ stepper[5].target = 32000
    /\ \A i \in Steppers : stepper[i].speed = 24000 /\ stepper[i].accel = 36000

----------------------------------------------------------------------------
(* C12: Direct Axis targets are not clamped: with bypassClamp false, the   *)
(* j-th valid pair of a command issues moveTo with exactly the converted   *)
(* step value of its v, also when v is negative or above 80 mm, so that    *)
(* the value issued lies outside [0, 32000].                               *)

\* the pairs of a command whose index names a connected actuator
ValidPairsOf(c) ==
    SelectSeq(PairsOf(c), LAMBDA t : PairIndex(t) \in 1..6 /\ PairIndex(t) \in connected)

C12_DirectUnclamped ==
    [][(Dispatching /\ commandKind(CurCommand) = "direct") =>
        LET issued == EventsOf(Appended, "moveTo")
            pairs == ValidPairsOf(CurCommand)
        IN  /\ ~bypassClamp /\ ~bypassClamp'
            /\ Len(issued) = Len(pairs)
            /\ \A j \in 1..Len(pairs) :
                 /\ issued[j].n = PairIndex(pairs[j])
                 /\ issued[j].v = TruncatedSteps(PairValue(pairs[j]))
                 /\ (PairValue(pairs[j]) < 0 \/ PairValue(pairs[j]) > 8000) =>
                      issued[j].v \notin 0..32000
      ]_vars

\* C12 witness: after "1:1,3:-1,4:90" the targets of actuators 3 and 4 lie below 0 and
\* above 32000 while bypassClamp is false
C12_Witness ==
    /\ Polling /\ ~bypassClamp
    /\ stepper[3].target = -426 /\ stepper[4].target = 38400

----------------------------------------------------------------------------
(* C13: every dispatched command is handled by exactly one handler, the    *)
(* first that applies of: HOME or HOME_BRUTE (any case) -> brute homing;   *)
(* HOME_SOFT -> soft homing; HEALTH or STATUS -> health report and no      *)
(* actuator call; first character 'Q' -> Quaternion; a colon anywhere ->   *)
(* Direct Axis; otherwise General Movement.                                *)

\* a character with lower-case letters folded to upper case
Folded(ch) ==
    IF \E k \in 1..26 : LowerChars[k] = ch
    THEN UpperChars[CHOOSE k \in 1..26 : LowerChars[k] = ch]
    ELSE ch

\* the command equals the literal when case is ignored
IsLiteral(c, lit) == [k \in 1..Len(c) |-> Folded(c[k])] = lit

\* the handler the priority order of the specification gives a command
Classified(c) ==
    CASE IsLiteral(c, <<"H", "O", "M", "E">>)
           \/ IsLiteral(c, <<"H", "O", "M", "E", "_", "B", "R", "U", "T", "E">>) -> "brute"
      [] IsLiteral(c, <<"H", "O", "M", "E", "_", "S", "O", "F", "T">>) -> "soft"
      [] IsLiteral(c, <<"H", "E", "A", "L", "T", "H">>)
           \/ IsLiteral(c, <<"S", "T", "A", "T", "U", "S">>) -> "health"
      [] OTHER -> IF Head(c) = "Q" THEN "quat"
                  ELSE IF \E k \in 1..Len(c) : c[k] = ":" THEN "direct"
                  ELSE "general"

\* the handlers whose calls a dispatching step shows
HandlersSeen ==
    LET rest == SubSeq(Appended, 2, Len(Appended))
    IN  {h \in {"brute", "soft", "health", "quat", "direct", "general"} :
           CASE h = "brute" ->
                  /\ pc' = "home" /\ Len(home'.phases) = 2 /\ stepper' = stepper
                  /\ rest = <<Ev(TxtBrute, "Serial", 0, 0, 0, <<>>)>>
             [] h = "soft" ->
                  /\ pc' = "home" /\ Len(home'.phases) = 1 /\ stepper' = stepper
                  /\ rest = <<Ev(TxtSoft, "Serial", 0, 0, 0, <<>>)>>
             [] h = "health" ->
                  /\ pc' # "home" /\ stepper' = stepper
                  /\ rest # <<>> /\ \A k \in 1..Len(rest) : rest[k].op = "health"
             [] h = "quat" ->
                  /\ pc' # "home"
                  /\ rest # <<>> /\ rest[1].op \in {TxtQuatShort, TxtQuatZero, TxtQuatEuler}
             [] h = "direct" ->
                  /\ pc' # "home"
                  /\ \A k \in 1..Len(rest) : rest[k].op \in {"moveTo", TxtBadStepper}
             [] h = "general" ->
                  /\ pc' # "home"
                  /\ Len(rest) = 3 * Cardinality(connected)
                  /\ \A k \in 1..Len(rest) :
                       rest[k].op \in {"setSpeedInHz", "setAcceleration", "moveTo"}}

C13_OneHandlerByPriority ==
    [][(Dispatching /\ CurCommand # <<>>) =>
        /\ Appended # <<>> /\ Appended[1] = Ev("exec", "", 0, 0, 0, CurCommand)
        /\ HandlersSeen = {Classified(CurCommand)}
      ]_vars

\* C13 witness: "q:1,0,0,0" has been handled as a Direct Axis command (one bad-index
\* report for the index q, no move)
C13_Witness ==
    /\ Polling
    /\ Len(log) >= 2
    /\ log[Len(log) - 1] = Ev("exec", "", 0, 0, 0, <<"q", ":", "1", ",", "0", ",", "0", ",", "0">>)
    /\ log[Len(log)].op = TxtBadStepper

----------------------------------------------------------------------------
(* General Movement grammar of the specification: comma-separated tokens,  *)
(* a letter followed by a number; the last token for a letter counts       *)

\* the positions of the tokens of c that start with the letter
TokensWith(c, letter) ==
    {k \in 1..Len(SplitAt(c, ",")) :
        SplitAt(c, ",")[k] # <<>> /\ Head(SplitAt(c, ",")[k]) = letter}

\* the number of the last token of c that starts with the letter, in hundredths
FieldValue(c, letter, default) ==
    IF TokensWith(c, letter) = {} THEN default
    ELSE toFloat(Tail(SplitAt(c, ",")[CHOOSE k \in TokensWith(c, letter) :
                                         \A h \in TokensWith(c, letter) : h <= k]))

\* hundredths to a whole number, the fraction dropped
WholePart(v) == IF v >= 0 THEN v \div 100 ELSE -((-v) \div 100)

\* the pose the grammar gives a General Movement command
GrammarPose(c) ==
    [angleX |-> WholePart(FieldValue(c, "X", 0)), angleY |-> WholePart(FieldValue(c, "Y", 0)),
     angleZ |-> WholePart(FieldValue(c, "Z", 0)),
     heightOffset |-> WholePart(FieldValue(c, "H", 0)),
     roll |-> WholePart(FieldValue(c, "R", 0)), pitch |-> WholePart(FieldValue(c, "P", 0))]

\* the actuators whose raw target for a pose is positive, and negative
RaisedBy(p) == {i \in Steppers : RawTarget(i, p) > 0}

LoweredBy(p) == {i \in Steppers : RawTarget(i, p) < 0}

\* a pose with one positive input on the given axis and nothing else
PureOn(p, axis) ==
    /\ p[axis] > 0
    /\ \A f \in {"angleX", "angleY", "angleZ", "heightOffset", "roll", "pitch"} \ {axis} : p[f] = 0

----------------------------------------------------------------------------
(* C14 as stated: with the clamp bypassed and height 0, a pure yaw, a pure *)
(* lateral and a pure longitudinal positive input each give three positive *)
(* and three negative targets.                                             *)
C14_ThreeUpThreeDown ==
    (pc = "done" /\ bypassClamp /\ connected = Steppers
       /\ \E axis \in {"angleX", "angleY", "angleZ"} : PureOn(GrammarPose(input), axis)) =>
        /\ Cardinality({i \in Steppers : stepper[i].target > 0}) = 3
        /\ Cardinality({i \in Steppers : stepper[i].target < 0}) = 3

(* C14 amended: with the clamp bypassed and height 0, every connected      *)
(* actuator gets the value of its matrix row; a pure yaw input raises      *)
(* actuators 2, 4, 6 and lowers 1, 3, 5, a pure lateral input raises       *)
(* 1, 4, 5 and lowers 2, 3, 6, and a pure longitudinal input raises only   *)
(* 1 and 6 and lowers 2, 3, 4, 5.                                          *)
C14_SignsFollowMatrix ==
    (pc = "done" /\ bypassClamp
       /\ \E axis \in {"angleX", "angleY", "angleZ"} : PureOn(GrammarPose(input), axis)) =>
        LET p == GrammarPose(input)
        IN  /\ \A i \in connected : stepper[i].target = RawTarget(i, p)
            /\ PureOn(p, "angleX") => RaisedBy(p) = {2, 4, 6} /\ LoweredBy(p) = {1, 3, 5}
            /\ PureOn(p, "angleY") => RaisedBy(p) = {1, 4, 5} /\ LoweredBy(p) = {2, 3, 6}
            /\ PureOn(p, "angleZ") => RaisedBy(p) = {1, 6} /\ LoweredBy(p) = {2, 3, 4, 5}

\* C14 witness: "Z30" executed with the clamp bypassed and all six connected: two
\* targets are 300 and four are -300
C14_Witness ==
    /\ pc = "done" /\ bypassClamp /\ connected = Steppers
    /\ input = <<"Z", "3", "0">>
    /\ stepper[1].target = 300 /\ stepper[6].target = 300
    /\ \A i \in {2, 3, 4, 5} : stepper[i].target = -300

----------------------------------------------------------------------------
(* C15: when bypassClamp is true, each target moveHead issues is the raw   *)
(* value of its matrix row plus 400 * heightOffset, with no bound, so it   *)
(* may be negative; the homing commands issue -22000                       *)
(* (prep), -32000 (main) and -16000 (soft) to every connected actuator.    *)
C15_BypassIssuesRaw ==
    (pc = "done" /\ bypassClamp) =>
        /\ \A i \in connected :
             /\ stepper[i].target = RawTarget(i, GrammarPose(input))
             /\ EventsOf(PositionOps(log, i), "moveTo")
                  = <<Ev("moveTo", "", i, RawTarget(i, GrammarPose(input)), 0, <<>>)>>
        /\ input = homeCommand(-55, 250, 250) => \A i \in connected : stepper[i].target = -22000
        /\ input = homeCommand(-80, 300, 300) => \A i \in connected : stepper[i].target = -32000
        /\ input = homeCommand(-40, 200, 200) => \A i \in connected : stepper[i].target = -16000

\* C15 witness: the prep homing command executed with the clamp bypassed: all six
\* targets are -22000
C15_Witness ==
    /\ pc = "done" /\ bypassClamp /\ connected = Steppers
    /\ input = <<"H", "-", "5", "5", ",", "S", "2", ".", "5", "0", ",", "A", "2", ".", "5", "0">>
    /\ \A i \in Steppers : stepper[i].target = -22000 /\ stepper[i].speed = 120000

----------------------------------------------------------------------------
(* C16: an accepted Quaternion command issues the same calls, and leaves   *)
(* the actuators in the same state, as the General Movement command        *)
(* X<yaw>,Y<pitch>,Z<roll>,H<h>,S<s>,A<a> would from the same state, where *)
(* yaw, pitch, roll are its converted angles and h, s, a the option values *)
(* it was read with; "Q:1,0,0,0" does what "H0" does.                      *)

\* the General Movement command with the given values
GeneralTextOf(e, o) ==
    <<"X">> \o StringOfInt(e.yaw) \o <<",", "Y">> \o StringOfInt(e.pitch)
    \o <<",", "Z">> \o StringOfInt(e.roll) \o <<",", "H">> \o StringOfInt(o.heightOffset)
    \o <<",", "S">> \o StringOfFloat2(o.speedMultiplier)
    \o <<",", "A">> \o StringOfFloat2(o.accelMultiplier)

\* the General Movement command that corresponds to an accepted Quaternion command
GeneralTwinOf(c) ==
    GeneralTextOf(eulerDegrees(QuatOf(c)),
                  quatOptions(QuatTokensOf(c), 5,
                      [heightOffset |-> 0, speedMultiplier |-> FScale,
                       accelMultiplier |-> FScale]))

\* what executeCommand does with a command from the present state
EffectOf(c) == executeCommand([stepper |-> stepper, log |-> <<>>], c)

LineIdentity == <<"Q", ":", "1", ",", "0", ",", "0", ",", "0">>

----------------------------------------------------------------------------
(* C17: a General Movement command dispatched right after the same command *)
(* makes the same calls with the same values as the first time and leaves  *)
(* every target, speed and acceleration as the first left it; and what a   *)
(* General Movement command issues to a connected actuator is determined   *)
(* by its text, the gains and bypassClamp alone.                           *)

\* the calls made when the command before the present one was dispatched
CallsOfLast ==
    LET execs == Positions(log, LAMBDA e : e.op = "exec")
        last == CHOOSE k \in execs : \A h \in execs : h <= k
    IN  SubSeq(log, last + 1, Len(log))

\* the present command repeats the one dispatched just before it on the same line
RepeatsLast ==
    /\ ExecCmds(log) # <<>>
    /\ ExecCmds(log)[Len(ExecCmds(log))] = CurCommand

C17_SameCommandSameTargets ==
    [][(Dispatching /\ commandKind(CurCommand) = "general") =>
        /\ \A i \in connected :
             /\ stepper'[i].target =
                  IF bypassClamp THEN RawTarget(i, GrammarPose(CurCommand))
                  ELSE Saturated(RawTarget(i, GrammarPose(CurCommand)))
             /\ stepper'[i].speed = (speedVar * FieldValue(CurCommand, "S", 100)) \div 100
             /\ stepper'[i].accel = (accVar * FieldValue(CurCommand, "A", 100)) \div 100
        /\ RepeatsLast =>
             /\ SubSeq(Appended, 2, Len(Appended)) = CallsOfLast
             /\ \A i \in Steppers :
                  /\ stepper'[i].target = stepper[i].target
                  /\ stepper'[i].speed = stepper[i].speed
                  /\ stepper'[i].accel = stepper[i].accel
      ]_vars

\* C17 witness: "X30,S2|X30,S2" has been processed: the log holds the same calls twice
C17_Witness ==
    /\ Polling /\ connected = Steppers
    /\ ExecCmds(log) = << <<"X", "3", "0", ",", "S", "2">>, <<"X", "3", "0", ",", "S", "2">> >>
    /\ Len(log) = 38
    /\ SubSeq(log, 2, 19) = SubSeq(log, 21, 38)
    /\ stepper[2].target = 300 /\ stepper[1].target = 0 /\ stepper[2].speed = 96000

----------------------------------------------------------------------------
(* C18: a General Movement command is executed with the pose its tokens    *)
(* give over the defaults (0 and 1.0): the last token for a letter counts, *)
(* the final token included; a token with another first letter, an empty   *)
(* token or a number that does not read counts for nothing or for 0; the   *)
(* calls made are the exec and, for each connected actuator in order,      *)
(* setSpeedInHz, setAcceleration, moveTo, and no report is made.           *)

\* the connected actuators in increasing order
RECURSIVE InOrder(_)
InOrder(S) ==
    IF S = {} THEN <<>>
    ELSE LET least == CHOOSE x \in S : \A y \in S : x <= y
         IN  <<least>> \o InOrder(S \ {least})

\* the calls of one move with the given targets (by actuator), speed and acceleration
RECURSIVE MoveCalls(_, _, _, _)
MoveCalls(order, targets, spd, acc) ==
    IF order = <<>> THEN <<>>
    ELSE <<Ev("setSpeedInHz", "", Head(order), spd, 0, <<>>),
           Ev("setAcceleration", "", Head(order), acc, 0, <<>>),
           Ev("moveTo", "", Head(order), targets[Head(order)], 0, <<>>)>>
         \o MoveCalls(Tail(order), targets, spd, acc)

LineGarbled == <<"H", "1", "0", ",", "Q", ",", ",", "X", "a", "b", ",", "H", "2", "0">>

LineUnknown == <<"W", "5", ",">>

ZeroPose == [angleX |-> 0, angleY |-> 0, angleZ |-> 0, heightOffset |-> 0, roll |-> 0, pitch |-> 0]

C18_GeneralPoseFromTokens ==
    [][(Dispatching /\ commandKind(CurCommand) = "general") =>
        LET c == CurCommand
            targets == [i \in Steppers |-> Saturated(RawTarget(i, GrammarPose(c)))]
        IN  /\ Appended = <<Ev("exec", "", 0, 0, 0, c)>>
                          \o MoveCalls(InOrder(connected), targets,
                                       (speedVar * FieldValue(c, "S", 100)) \div 100,
                                       (accVar * FieldValue(c, "A", 100)) \div 100)
            /\ c = LineGarbled =>
                 /\ GrammarPose(c) = [ZeroPose EXCEPT !.heightOffset = 20]
                 /\ \A i \in connected : stepper'[i].target = 8000 /\ stepper'[i].speed = 48000
            /\ c = LineUnknown =>
                 /\ GrammarPose(c) = ZeroPose
                 /\ \A i \in connected :
                      stepper'[i].target = 0 /\ stepper'[i].speed = 48000
                      /\ stepper'[i].accel = 36000
      ]_vars

\* C18 witness: "H10,Q,,Xab,H20" has been executed: every target is 8000 (H20), at the
\* default speed and acceleration, and the log holds nothing but the exec and the calls
C18_Witness ==
    /\ pc = "parse" /\ connected = Steppers
    /\ ExecCmds(log) = <<LineGarbled>>
    /\ Len(log) = 19
    /\ \A i \in Steppers : stepper[i].target = 8000 /\ stepper[i].speed = 48000
                           /\ stepper[i].accel = 36000

----------------------------------------------------------------------------
(* C19: a HEALTH or STATUS command, on whichever transport it arrived,     *)
(* emits one health line on Serial and then one on BTSerial exactly when a *)
(* peer is connected at that moment, and changes no actuator state and not *)
(* bypassClamp; no other step of the program emits a health line.          *)

\* this step dispatches a HEALTH or STATUS command
DispatchingHealth ==
    Dispatching /\ CurCommand # <<>> /\ Classified(CurCommand) = "health"

\* the health line as emitHealthReport writes it to a transport
HealthLine(to) == Ev("health", to, speedVar, accVar, IF bypassClamp THEN 1 ELSE 0, <<>>)

C19_HealthOnBothTransports ==
    [][/\ DispatchingHealth =>
            /\ SubSeq(Appended, 2, Len(Appended))
                 = <<HealthLine("Serial")>> \o (IF btClient THEN <<HealthLine("BT")>> ELSE <<>>)
            /\ stepper' = stepper
            /\ bypassClamp' = bypassClamp
       /\ (~DispatchingHealth /\ Len(log') >= Len(log)) => EventsOf(Appended, "health") = <<>>
      ]_vars

\* C19 witness: "Status" arrived on BTSerial and has been answered on both transports
C19_Witness ==
    /\ pc = "pollUSB" /\ after = "pollUSB" /\ btClient
    /\ input = <<"S", "t", "a", "t", "u", "s">>
    /\ log = <<Ev("exec", "", 0, 0, 0, input), HealthLine("Serial"), HealthLine("BT")>>

----------------------------------------------------------------------------
(* C20: an actuator that did not connect is never touched and never named  *)
(* in a call, and no report is made about it; the values issued to the     *)
(* connected actuators by a move, a Direct Axis pair, a homing move and a  *)
(* re-zero are given by expressions in which the set of connected          *)
(* actuators does not occur, so they are what they would be with all six.  *)

\* an actuator no call has reached
Untouched == [target |-> 0, pos |-> 0, speed |-> 0, accel |-> 0, moving |-> FALSE]

\* the reports a step may make: those of the command texts, never one about a handle
ReportsOf(c) ==
    IF c = <<>> THEN {}
    ELSE CASE Classified(c) = "direct" ->
                {TxtBadStepper : t \in {k \in 1..Len(PairsOf(c)) :
                                          PairIndex(PairsOf(c)[k]) \notin 1..6}}
           [] Classified(c) = "quat" -> {TxtQuatShort, TxtQuatZero, TxtQuatEuler}
           [] Classified(c) = "brute" -> {TxtBrute}
           [] Classified(c) = "soft" -> {TxtSoft}
           [] OTHER -> {}

C20_AbsentActuatorSkipped ==
    [][/\ \A i \in Steppers \ connected' :
            /\ stepper'[i] = Untouched
            /\ \A k \in 1..Len(log') : log'[k].n # i
       /\ Dispatching =>
            /\ \A k \in 1..Len(Appended) :
                 (Appended[k].to = "Serial" /\ Appended[k].op # "health") =>
                     Appended[k].op \in ReportsOf(CurCommand)
            /\ MovesHead =>
                 \A i \in connected :
                    EventsOf(PositionOps(Appended, i), "moveTo")
                      = <<Ev("moveTo", "", i, Saturated(RawTarget(i, PoseOf(CurCommand))), 0, <<>>)>>
            /\ (CurCommand # <<>> /\ Classified(CurCommand) = "direct") =>
                 \A i \in connected :
                    PairsFor(PairsOf(CurCommand), i) # {} =>
                        stepper'[i].target = TruncatedSteps(PairValue(LastPairFor(i)))
       /\ (pc = "home" /\ home.step = "move" /\ home' # home) =>
            /\ \A k \in 1..Len(Appended) : Appended[k].to # "Serial"
            /\ \A i \in connected :
                 /\ stepper'[i].target = 400 * Head(home.phases).heightMm
                 /\ stepper'[i].speed = (speedVar * Head(home.phases).speedMultiplier) \div 100
                 /\ stepper'[i].accel = (accVar * Head(home.phases).accelMultiplier) \div 100
       /\ (pc = "home" /\ home.step = "zero" /\ home' # home) =>
            /\ Appended = [k \in 1..Cardinality(connected) |->
                             Ev("setCurrentPosition", "", InOrder(connected)[k], 0, 0, <<>>)]
            /\ \A i \in connected : stepper'[i].pos = 0
      ]_vars

\* C20 witness: with actuators 3 and 6 absent, "1:1,3:-1,4:90" has been executed: the
\* pairs for 1 and 4 are issued, the pair for 3 is dropped without a report
C20_Witness ==
    /\ Polling /\ connected = Steppers \ {3, 6}
    /\ Len(log) = 16
    /\ SubSeq(log, 14, 16)
         = <<Ev("exec", "", 0, 0, 0, <<"1", ":", "1", ",", "3", ":", "-", "1", ",", "4", ":", "9", "0">>),
             Ev("moveTo", "", 1, 426, 0, <<>>), Ev("moveTo", "", 4, 38400, 0, <<>>)>>
    /\ stepper[3] = Untouched /\ stepper[6] = Untouched
    /\ stepper[1].target = 426 /\ stepper[4].target = 38400

----------------------------------------------------------------------------
(* C21: every homing phase saves bypassClamp and sets it, issues its move  *)
(* (height, speed and acceleration of its profile), waits its settle       *)
(* delay, sets every actuator's position to 0 and restores bypassClamp, in *)
(* this order.  Soft homing is one phase (H = -40, x2, 2200 ms); brute     *)
(* homing is the prep phase (H = -55, x2.5, 2300 ms) completed, a pause of *)
(* 150 ms with bypassClamp false, then the main phase (H = -80, x3,        *)
(* 2600 ms); no re-zero comes before its phase's move and settle delay.    *)

\* the calls of one phase: the move, the settle delay, the re-zero
PhaseCalls(heightMm, mult, settleMs) ==
    MoveCalls(InOrder(connected), [i \in Steppers |-> 400 * heightMm],
              (48000 * mult) \div 100, (36000 * mult) \div 100)
    \o <<Ev("delay", "", 0, settleMs, 0, <<>>)>>
    \o [k \in 1..Cardinality(connected) |->
          Ev("setCurrentPosition", "", InOrder(connected)[k], 0, 0, <<>>)]

SoftCalls == PhaseCalls(-40, 200, 2200)

PrepCalls == PhaseCalls(-55, 250, 2300)

PauseCall == <<Ev("delay", "", 0, 150, 0, <<>>)>>

BruteCalls == PrepCalls \o PauseCall \o PhaseCalls(-80, 300, 2600)

IsHomingText(e) == e.op \in {TxtSoft, TxtBrute}

\* the position in l of the report of the homing sequence started last
LastHomingText(l) ==
    CHOOSE k \in {h \in 1..Len(l) : IsHomingText(l[h])} :
        \A h \in {j \in 1..Len(l) : IsHomingText(l[j])} : h <= k

\* the calls made since the homing sequence started last was reported
HomingTail(l) == SubSeq(l, LastHomingText(l) + 1, Len(l))

\* the calls the homing sequence started last is to make
HomingCalls(l) == IF l[LastHomingText(l)].op = TxtSoft THEN SoftCalls ELSE BruteCalls

IsPrefix(s, t) == Len(s) <= Len(t) /\ SubSeq(t, 1, Len(s)) = s

\* the points of a homing sequence where a phase begins, and where one has ended
PhaseStarts(l) == IF l[LastHomingText(l)].op = TxtSoft THEN {<<>>} ELSE {<<>>, PrepCalls \o PauseCall}

PhaseEnds(l) == IF l[LastHomingText(l)].op = TxtSoft THEN {SoftCalls} ELSE {PrepCalls, BruteCalls}

C21_HomingPhaseOrder ==
    [][/\ bypassClamp' # bypassClamp => (pc = "home" /\ Appended = <<>>)
       /\ (pc # "home" /\ pc' = "home") => (~bypassClamp /\ HomingTail(log') = <<>>)
       /\ (pc' = "home" /\ log' # log) =>
            /\ \E e \in {k \in 1..Len(log') : IsHomingText(log'[k])} : TRUE
            /\ IsPrefix(HomingTail(log'), HomingCalls(log'))
       /\ (pc = "home" /\ pc' = "home") =>
            /\ (~bypassClamp /\ bypassClamp') => HomingTail(log) \in PhaseStarts(log)
            /\ (bypassClamp /\ ~bypassClamp') => HomingTail(log) \in PhaseEnds(log)
            /\ Appended # <<>> =>
                 /\ bypassClamp = (Appended # PauseCall)
                 /\ HomingTail(log) \in PhaseStarts(log) => Appended[1].op \in {"setSpeedInHz", "delay"}
                 /\ HomingTail(log') \in PhaseStarts(log') => ~bypassClamp
       /\ (pc = "home" /\ pc' # "home") =>
            /\ HomingTail(log') = HomingCalls(log')
            /\ ~bypassClamp'
            /\ \A i \in connected : stepper'[i].pos = 0
      ]_vars

\* C21 witness: the HOME_BRUTE command of a line has run to its end: both phases and the
\* pause are in the log, bypassClamp is false again
C21_Witness ==
    /\ Polling /\ connected = Steppers /\ ~bypassClamp
    /\ ExecCmds(log) = <<LitHomeBrute>>
    /\ HomingTail(log) = BruteCalls
    /\ Len(log) = 53

----------------------------------------------------------------------------
(* C22: every General Movement, Quaternion and homing move sets, for each  *)
(* connected actuator, the speed speedVar * speedMultiplier and the        *)
(* acceleration accVar * accelMultiplier before it issues that actuator's  *)
(* moveTo, with the same two values for all actuators; the multipliers are *)
(* those of the present command, 1.0 where it names none, whatever the     *)
(* command before it named; nothing else changes a speed or acceleration   *)
(* once the actuators are configured, and the two gains never change.      *)

\* the calls made on the actuators by this step
DriverCalls == SelectSeq(Appended, LAMBDA e : e.op \in {"setSpeedInHz", "setAcceleration", "moveTo"})

\* the step makes, for each connected actuator in order, setSpeedInHz(spd),
\* setAcceleration(acc) and then moveTo, and leaves the actuator with these two values
MovesWithGains(spd, acc) ==
    /\ Len(DriverCalls) = 3 * Cardinality(connected)
    /\ \A k \in 1..Cardinality(connected) :
         /\ DriverCalls[3 * k - 2] = Ev("setSpeedInHz", "", InOrder(connected)[k], spd, 0, <<>>)
         /\ DriverCalls[3 * k - 1] = Ev("setAcceleration", "", InOrder(connected)[k], acc, 0, <<>>)
         /\ DriverCalls[3 * k].op = "moveTo"
         /\ DriverCalls[3 * k].n = InOrder(connected)[k]
    /\ \A i \in connected : stepper'[i].speed = spd /\ stepper'[i].accel = acc

\* the multiplier, in hundredths, that a Quaternion command names with the letter among
\* the two optional tokens its handler keeps; 1.0 if it names none
QuatKept(c) == SubSeq(GrammarTokens(c), 5, IF Len(GrammarTokens(c)) < 6 THEN Len(GrammarTokens(c)) ELSE 6)

QuatMultiplier(c, letter) ==
    LET named == {k \in 1..Len(QuatKept(c)) :
                    Strip(QuatKept(c)[k]) # <<>> /\ Head(Strip(QuatKept(c)[k])) = letter}
    IN  IF named = {} THEN 100
        ELSE toFloat(Tail(Strip(QuatKept(c)[CHOOSE k \in named : \A h \in named : h <= k])))

\* the multiplier, in hundredths, of the homing phase whose move this step issues
HomingMultiplier ==
    IF log[LastHomingText(log)].op = TxtSoft THEN 200
    ELSE IF HomingTail(log) = <<>> THEN 250 ELSE 300

\* this step issues a move of the head
IssuesMove == EventsOf(Appended, "setSpeedInHz") # <<>>

C22_GainsOfTheCommand ==
    [][/\ speedVar' = speedVar /\ accVar' = accVar
       /\ (pc # "setup" /\ \E i \in Steppers : stepper'[i].speed # stepper[i].speed
                                               \/ stepper'[i].accel # stepper[i].accel)
            => IssuesMove
       /\ IssuesMove =>
            \/ /\ Dispatching /\ Classified(CurCommand) = "general"
               /\ MovesWithGains((48000 * FieldValue(CurCommand, "S", 100)) \div 100,
                                 (36000 * FieldValue(CurCommand, "A", 100)) \div 100)
            \/ /\ Dispatching /\ Classified(CurCommand) = "quat"
               /\ MovesWithGains((48000 * QuatMultiplier(CurCommand, "S")) \div 100,
                                 (36000 * QuatMultiplier(CurCommand, "A")) \div 100)
            \/ /\ pc = "home" /\ bypassClamp
               /\ MovesWithGains((48000 * HomingMultiplier) \div 100,
                                 (36000 * HomingMultiplier) \div 100)
       /\ (Dispatching /\ CurCommand # <<>> /\ Classified(CurCommand) = "general") => IssuesMove
       /\ (Dispatching /\ CurCommand # <<>> /\ Classified(CurCommand) = "quat"
             /\ EventsOf(Appended, "moveTo") # <<>>) => IssuesMove
       /\ (pc = "home" /\ EventsOf(Appended, "moveTo") # <<>>) => IssuesMove
      ]_vars

\* C22 witness: "Q:0.5,0.5,0.5,0.5,A2,H5|Q0.97,0,0.26,0,S2" has been executed: the second
\* command leaves the doubled speed it names and the plain acceleration, not the doubled
\* acceleration of the first
C22_Witness ==
    /\ Polling /\ connected = Steppers
    /\ Len(ExecCmds(log)) = 2
    /\ QuatMultiplier(ExecCmds(log)[1], "A") = 200 /\ QuatMultiplier(ExecCmds(log)[1], "S") = 100
    /\ QuatMultiplier(ExecCmds(log)[2], "S") = 200 /\ QuatMultiplier(ExecCmds(log)[2], "A") = 100
    /\ Classified(ExecCmds(log)[2]) = "quat"
    /\ \A i \in Steppers : stepper[i].speed = 96000 /\ stepper[i].accel = 36000

----------------------------------------------------------------------------
(* C23: every health line ever emitted carries SPEED_HZ=48000,             *)
(* ACCEL=36000 and BYPASS_CLAMP=0: the two gains never change, whatever    *)
(* speed and acceleration the commands and the homing configure on the     *)
(* actuators, and no health line is emitted while a homing phase holds     *)
(* bypassClamp true.                                                       *)
C23_HealthLineConstant ==
    /\ speedVar = 48000 /\ accVar = 36000
    /\ \A k \in 1..Len(log) :
         log[k].op = "health" => (log[k].n = 48000 /\ log[k].v = 36000 /\ log[k].b = 0)
    /\ bypassClamp =>
         /\ pc = "home"
         /\ log # <<>> /\ log[Len(log)].op # "health"
         /\ EventsOf(HomingTail(log), "health") = <<>>

\* C23 witness: "H-40,S2,A2|HEALTH" has been processed: the health line was emitted with
\* the actuators configured at twice the gains
C23_Witness ==
    /\ Polling /\ connected = Steppers
    /\ Len(ExecCmds(log)) = 2 /\ Classified(ExecCmds(log)[2]) = "health"
    /\ log[Len(log)].op = "health"
    /\ \A i \in Steppers : stepper[i].speed = 96000 /\ stepper[i].accel = 72000

----------------------------------------------------------------------------
(* C24: each iteration of loop() reads at most one line from BTSerial and  *)
(* then at most one line from Serial, and processes each line to its end   *)
(* before the next is read: a line is read from a transport only at that   *)
(* transport's poll, a poll with a line pending reads it, the thread goes  *)
(* from one transport's poll to the other's and comes back from a line     *)
(* only when every segment is dispatched and no homing is running.  Under  *)
(* continuous input on both transports a line pending on one of them is    *)
(* read: a full buffer gets room again, and when the line read last came   *)
(* from the other transport a read from this one follows.                  *)

\* the poll that follows the poll of the given transport
PollAfter(p) == IF p = "pollBT" THEN "pollUSB" ELSE "pollBT"

\* this step takes the first line pending at the poll p out of buffer b
ReadsAt(p, b, bNext) ==
    /\ pc = p
    /\ bNext = Tail(b)
    /\ input' = Strip(Head(b))
    /\ startIdx' = 0
    /\ after' = PollAfter(p)
    /\ pc' = IF Strip(Head(b)) = <<>> THEN PollAfter(p) ELSE "parse"

C24_FairPolling ==
    /\ [][/\ Len(btBuf') < Len(btBuf) => (ReadsAt("pollBT", btBuf, btBuf') /\ usbBuf' = usbBuf)
          /\ Len(usbBuf') < Len(usbBuf) => (ReadsAt("pollUSB", usbBuf, usbBuf') /\ btBuf' = btBuf)
          /\ (pc = "pollBT" /\ pc' # pc) =>
               IF btBuf # <<>> THEN Len(btBuf') < Len(btBuf) ELSE pc' = "pollUSB"
          /\ (pc = "pollUSB" /\ pc' # pc) =>
               IF usbBuf # <<>> THEN Len(usbBuf') < Len(usbBuf) ELSE pc' = "pollBT"
          /\ pc \in {"parse", "home"} =>
               /\ after' = after /\ input' = input
               /\ pc' \in {"pollBT", "pollUSB"} =>
                    (pc' = after /\ startIdx' = Len(input) /\ home'.step = "idle")
         ]_vars
    /\ (Len(usbBuf) = MaxPending) ~> (Len(usbBuf) < MaxPending)
    /\ (Len(btBuf) = MaxPending) ~> (Len(btBuf) < MaxPending)
    /\ (usbBuf # <<>> /\ after = "pollUSB") ~> (after = "pollBT")
    /\ (btBuf # <<>> /\ after = "pollBT") ~> (after = "pollUSB")

\* C24 witness: a line of Serial has just been read while BTSerial, from which the line
\* before it was read (the soft homing it asked for has left its targets), has its buffer
\* full again
C24_Witness ==
    /\ pc = "parse" /\ after = "pollBT" /\ startIdx = 0 /\ log = <<>>
    /\ input = LitHome
    /\ Len(btBuf) = MaxPending
    /\ \A i \in connected : stepper[i].target = -16000

=============================================================================
